---- MODULE Spec2Model ----
(***************************************************************************)
(* A model of the kubelet CPU manager core: the topology-aware CPU         *)
(* accumulator (cpu_assignment: takeByTopologyNUMAPacked and its uncore    *)
(* cache extension) and the checkpoint-backed allocation state store       *)
(* (pkg/kubelet/cm/cpumanager/state).                                      *)
(***************************************************************************)
EXTENDS Integers, Sequences, FiniteSets, TLC

VARIABLES
    \* ---- accumulator (takeIterator harness around takeByTopologyNUMAPacked)
    topo,        \* the CPUTopology under test
    cpuSet,      \* CPUs still available (takeIterator's cpuSet)
    lastCall,    \* inputs and outcome of the most recent call
    retryCall,   \* outcome of repeating that call with the same inputs
    \* ---- checkpoint-backed state store
    disk,        \* the checkpoint file: NoFile or <<json>>
    scState,     \* "none": no store; "ready": NewCheckpointState returned a
                 \* State; "failed": it returned an error
    scPolicy,    \* stateCheckpoint.policyName
    cache,       \* stateCheckpoint.cache
    lastOp,      \* the most recent operation and the error it returned or logged
    handoff,     \* what the previous store held in memory when it went away
    budget,      \* operations made so far: [calls, tampers]
    \* ---- checkpoint objects (MarshalCheckpoint / VerifyChecksum / migration)
    ck,
    \* ---- callers running the allocation flow against one store
    callers,
    \* ---- goroutines calling one store concurrently
    mux,         \* stateCheckpoint.mux: [writer, readers]
    threads,     \* each goroutine's call and position in it
    hist,        \* lock acquisitions, cache updates and checkpoint writes
    \* ---- the policy plugin stub (topologymanager/plugin/v1alpha1)
    stub,        \* the Stub's fields and the outcome of the last call on it
    \* ---- calls of pure functions: the inputs drawn and the result returned
    pure,
    \* ---- the plugin policy, its registration server and the plugin clients
    plug

takeVars == <<topo, cpuSet, lastCall, retryCall>>

storeVars == <<disk, scState, scPolicy, cache, lastOp, handoff, budget>>

lockVars == <<mux, threads, hist>>

pluginVars == <<stub>>

pureVars == <<pure>>

policyVars == <<plug>>

vars == <<topo, cpuSet, lastCall, retryCall, disk, scState, scPolicy, cache,
          lastOp, handoff, budget, ck, callers, mux, threads, hist, stub, pure,
          plug>>

(***************************************************************************)
(* Generic helpers                                                         *)
(***************************************************************************)
Min(S) == CHOOSE x \in S : \A y \in S : x <= y

Max(S) == CHOOSE x \in S : \A y \in S : x >= y

RECURSIVE SetToSeqAsc(_)
SetToSeqAsc(S) ==
    IF S = {} THEN <<>> ELSE <<Min(S)>> \o SetToSeqAsc(S \ {Min(S)})

RECURSIVE SetToSeqDesc(_)
SetToSeqDesc(S) ==
    IF S = {} THEN <<>> ELSE <<Max(S)>> \o SetToSeqDesc(S \ {Max(S)})

RECURSIVE Concat(_)
Concat(seqs) ==
    IF seqs = <<>> THEN <<>> ELSE Head(seqs) \o Concat(Tail(seqs))

SeqRange(s) == {s[i] : i \in 1..Len(s)}

\* Go map / set iteration order is unspecified: a list taken from a set comes
\* out in an order the caller must not rely on.
IterOrders == {"asc", "desc"}

UnsortedList(S, ord) == IF ord = "asc" THEN SetToSeqAsc(S) ELSE SetToSeqDesc(S)

(***************************************************************************)
(* Topologies                                                              *)
(***************************************************************************)
CPUInfo(core, socket, numa, uncore) ==
    [CoreID |-> core, SocketID |-> socket, NUMANodeID |-> numa, UnCoreCacheID |-> uncore]

\* 1 socket, 4 cores, 2 threads per core, thread pairs (0,4)(1,5)(2,6)(3,7);
\* no uncore cache information (UnCoreCacheID = -1).
topoSingleSocketHT ==
    [NumCPUs |-> 8, NumCores |-> 4, NumSockets |-> 1, NumNUMANodes |-> 1,
     NumUnCoreCaches |-> 0,
     CPUDetails |-> [c \in 0..7 |-> CPUInfo(c % 4, 0, 0, -1)]]

\* The same machine with two uncore caches: cores 0,1 share cache 0 and
\* cores 2,3 share cache 1.
topoDualUncoreCacheHT ==
    [NumCPUs |-> 8, NumCores |-> 4, NumSockets |-> 1, NumNUMANodes |-> 1,
     NumUnCoreCaches |-> 2,
     CPUDetails |-> [c \in 0..7 |-> CPUInfo(c % 4, 0, 0, (c % 4) \div 2)]]

\* The same machine with one uncore cache shared by all four cores.
topoSingleUncoreCacheHT ==
    [NumCPUs |-> 8, NumCores |-> 4, NumSockets |-> 1, NumNUMANodes |-> 1,
     NumUnCoreCaches |-> 1,
     CPUDetails |-> [c \in 0..7 |-> CPUInfo(c % 4, 0, 0, 0)]]

\* 2 sockets = 2 NUMA nodes, 2 single-threaded cores each, no uncore caches.
topoDualSocketNoHT ==
    [NumCPUs |-> 4, NumCores |-> 4, NumSockets |-> 2, NumNUMANodes |-> 2,
     NumUnCoreCaches |-> 0,
     CPUDetails |-> [c \in 0..3 |-> CPUInfo(c, c % 2, c % 2, -1)]]

\* 2 sockets = 2 NUMA nodes, each with 2 uncore caches of 2 single-threaded
\* cores: socket s holds CPUs 4s..4s+3, cache u holds CPUs 2u, 2u+1.
topoDualSocketMultiCache ==
    [NumCPUs |-> 8, NumCores |-> 8, NumSockets |-> 2, NumNUMANodes |-> 2,
     NumUnCoreCaches |-> 4,
     CPUDetails |-> [c \in 0..7 |-> CPUInfo(c, c \div 4, c \div 4, c \div 2)]]

Topologies ==
    {topoSingleSocketHT, topoDualUncoreCacheHT, topoSingleUncoreCacheHT,
     topoDualSocketNoHT, topoDualSocketMultiCache}

AllCPUs(t) == DOMAIN t.CPUDetails

CPUsPerCore(t) == IF t.NumCores = 0 THEN 0 ELSE t.NumCPUs \div t.NumCores

CPUsPerSocket(t) == IF t.NumSockets = 0 THEN 0 ELSE t.NumCPUs \div t.NumSockets

CPUsPerNUMANode(t) == IF t.NumNUMANodes = 0 THEN 0 ELSE t.NumCPUs \div t.NumNUMANodes

CPUsPerUncoreCache(t) ==
    IF t.NumUnCoreCaches = 0 THEN 0 ELSE t.NumCPUs \div t.NumUnCoreCaches

\* CPUDetails queries; D is the CPU set the details were narrowed to (KeepOnly).
CPUsInCores(t, D, id) == {c \in D : t.CPUDetails[c].CoreID = id}

CPUsInSockets(t, D, id) == {c \in D : t.CPUDetails[c].SocketID = id}

CPUsInNUMANodes(t, D, id) == {c \in D : t.CPUDetails[c].NUMANodeID = id}

CPUsInUncoreCaches(t, D, id) == {c \in D : t.CPUDetails[c].UnCoreCacheID = id}

Sockets(t, D) == {t.CPUDetails[c].SocketID : c \in D}

NUMANodes(t, D) == {t.CPUDetails[c].NUMANodeID : c \in D}

SocketsInNUMANodes(t, D, numa) ==
    {t.CPUDetails[c].SocketID : c \in CPUsInNUMANodes(t, D, numa)}

NUMANodesInSockets(t, D, socket) ==
    {t.CPUDetails[c].NUMANodeID : c \in CPUsInSockets(t, D, socket)}

CoresInSockets(t, D, socket) ==
    {t.CPUDetails[c].CoreID : c \in CPUsInSockets(t, D, socket)}

CoresInNUMANodes(t, D, numa) ==
    {t.CPUDetails[c].CoreID : c \in CPUsInNUMANodes(t, D, numa)}

UncoreCachesInSocket(t, D, socket) ==
    {t.CPUDetails[c].UnCoreCacheID : c \in CPUsInSockets(t, D, socket)}

UncoreCachesInNUMANode(t, D, numa) ==
    {t.CPUDetails[c].UnCoreCacheID : c \in CPUsInNUMANodes(t, D, numa)}

CoresInUncoreCaches(t, D, uncore) ==
    {t.CPUDetails[c].CoreID : c \in CPUsInUncoreCaches(t, D, uncore)}

(***************************************************************************)
(* The CPU accumulator                                                     *)
(***************************************************************************)
\* Mutant: the counts are ignored, ids go in ascending order.
LessByIdOnly(i, j, count) == i < j

\* Mutant: ties are broken by descending id.
LessTiesDescending(i, j, count) ==
    \/ count[i] < count[j]
    \/ count[i] = count[j] /\ i > j

\* Mutant: ids with equal counts are left in the order they came in.
LessByCountOnly(i, j, count) == count[i] < count[j]

\* sort.Slice's less function of sortBySize: by count, ties by ascending id.
Less(i, j, count) ==
    \/ count[i] < count[j]
    \/ count[i] = count[j] /\ i < j

RECURSIVE InsertSorted(_, _, _)
InsertSorted(sorted, x, count) ==
    IF sorted = <<>> THEN <<x>>
    ELSE IF Less(x, Head(sorted), count) THEN <<x>> \o sorted
    ELSE <<Head(sorted)>> \o InsertSorted(Tail(sorted), x, count)

RECURSIVE SortSlice(_, _)
SortSlice(ids, count) ==
    IF ids = <<>> THEN <<>>
    ELSE InsertSorted(SortSlice(Tail(ids), count), Head(ids), count)

\* Mutant: the list is left as it came.
sortBySizeUnsorted(ids, count) == ids

\* sortBySize(ids, getCPUCount): count maps an id to getCPUCount(id).
sortBySize(ids, count) == SortSlice(ids, count)

\* a.sort(ids, getCPUs): the same order, by the size of the CPU set of each id.
sortByCPUs(ids, count) == SortSlice(ids, count)

newCPUAccumulator(t, availableCPUs, numCPUs, ord) ==
    [topo |-> t,
     details |-> AllCPUs(t) \cap availableCPUs,
     numCPUsNeeded |-> numCPUs,
     result |-> {},
     numaFirst |-> (t.NumSockets >= t.NumNUMANodes),
     ord |-> ord]

needsAtLeast(a, n) == a.numCPUsNeeded >= n

isSatisfied(a) == a.numCPUsNeeded < 1

\* Mutant: the capacity check never fires.
isFailedNever(a) == FALSE

isFailed(a) == a.numCPUsNeeded > Cardinality(a.details)

take(a, cpus) ==
    [a EXCEPT !.result = a.result \cup cpus,
              !.details = a.details \ (a.result \cup cpus),
              !.numCPUsNeeded = a.numCPUsNeeded - Cardinality(cpus)]

\* ---- numaFirst / socketsFirst orderings of the sockets and NUMA nodes
sortedNUMANodesOf(a, ids) ==
    sortByCPUs(UnsortedList(ids, a.ord),
               [n \in ids |-> Cardinality(CPUsInNUMANodes(a.topo, a.details, n))])

sortedSocketsOf(a, ids) ==
    sortByCPUs(UnsortedList(ids, a.ord),
               [s \in ids |-> Cardinality(CPUsInSockets(a.topo, a.details, s))])

sortedCoresOf(a, ids) ==
    sortByCPUs(UnsortedList(ids, a.ord),
               [c \in ids |-> Cardinality(CPUsInCores(a.topo, a.details, c))])

sortAvailableNUMANodes(a) ==
    IF a.numaFirst
    THEN sortedNUMANodesOf(a, NUMANodes(a.topo, a.details))
    ELSE LET sockets == sortedSocketsOf(a, Sockets(a.topo, a.details))
         IN  Concat([i \in 1..Len(sockets) |->
                 sortedNUMANodesOf(a, NUMANodesInSockets(a.topo, a.details, sockets[i]))])

sortAvailableSockets(a) ==
    IF a.numaFirst
    THEN LET numas == sortedNUMANodesOf(a, NUMANodes(a.topo, a.details))
         IN  Concat([i \in 1..Len(numas) |->
                 sortedSocketsOf(a, SocketsInNUMANodes(a.topo, a.details, numas[i]))])
    ELSE sortedSocketsOf(a, Sockets(a.topo, a.details))

\* ---- uncore caches
\* numaFirst.sortAvailableUncoreCaches walks the sorted sockets, and
\* socketsFirst.sortAvailableUncoreCaches the sorted NUMA nodes; each sorts the
\* caches of the group by uncoreCpus - freeCpus.
sortAvailableUncoreCaches(a) ==
    LET uncoreCpus == CPUsPerUncoreCache(a.topo)
        groups == IF a.numaFirst THEN sortAvailableSockets(a)
                  ELSE sortAvailableNUMANodes(a)
        cachesOf(g) == IF a.numaFirst THEN UncoreCachesInSocket(a.topo, a.details, g)
                       ELSE UncoreCachesInNUMANode(a.topo, a.details, g)
        sorted(g) ==
            sortBySize(UnsortedList(cachesOf(g), a.ord),
                       [u \in cachesOf(g) |->
                           uncoreCpus - Cardinality(CPUsInUncoreCaches(a.topo, a.details, u))])
    IN  Concat([i \in 1..Len(groups) |-> sorted(groups[i])])

\* Mutant: a cache with any CPU available counts as free.
isUncoreCacheFreeLoose(a, uncoreCacheID) ==
    CPUsInUncoreCaches(a.topo, a.details, uncoreCacheID) # {}

isUncoreCacheFree(a, uncoreCacheID) ==
    Cardinality(CPUsInUncoreCaches(a.topo, a.details, uncoreCacheID))
        = CPUsPerUncoreCache(a.topo)

freeUncoreCaches(a) ==
    SelectSeq(sortAvailableUncoreCaches(a), LAMBDA u : isUncoreCacheFree(a, u))

\* Mutant: the loop body without its needsAtLeast guard.
takeUncoreGroupUnguarded(a, uncorecache) ==
    take(a, CPUsInUncoreCaches(a.topo, AllCPUs(a.topo), uncorecache))

\* One iteration of the loop of takeFullUncoreGroups.
takeUncoreGroup(a, uncorecache) ==
    LET cpusInUncoreCache == CPUsInUncoreCaches(a.topo, AllCPUs(a.topo), uncorecache)
    IN  IF ~needsAtLeast(a, Cardinality(cpusInUncoreCache)) THEN a
        ELSE take(a, cpusInUncoreCache)

RECURSIVE takeUncoreLoop(_, _)
takeUncoreLoop(a, ids) ==
    IF ids = <<>> THEN a
    ELSE takeUncoreLoop(takeUncoreGroup(a, Head(ids)), Tail(ids))

takeFullUncoreGroups(a) == takeUncoreLoop(a, freeUncoreCaches(a))

sortAvailableCoresForUncoreCaches(a) ==
    LET caches == sortAvailableUncoreCaches(a)
    IN  Concat([i \in 1..Len(caches) |->
            sortedCoresOf(a, CoresInUncoreCaches(a.topo, a.details, caches[i]))])

\* ---- the rest of the accumulator (cpu_assignment.go)
uncoreActive(a) == a.topo.NumUnCoreCaches > 0

sortAvailableCores(a) ==
    IF uncoreActive(a) THEN sortAvailableCoresForUncoreCaches(a)
    ELSE IF a.numaFirst
    THEN LET sockets == sortAvailableSockets(a)
         IN  Concat([i \in 1..Len(sockets) |->
                 sortedCoresOf(a, CoresInSockets(a.topo, a.details, sockets[i]))])
    ELSE LET numas == sortAvailableNUMANodes(a)
         IN  Concat([i \in 1..Len(numas) |->
                 sortedCoresOf(a, CoresInNUMANodes(a.topo, a.details, numas[i]))])

sortAvailableCPUs(a) ==
    LET cores == sortAvailableCores(a)
    IN  Concat([i \in 1..Len(cores) |->
            SetToSeqAsc(CPUsInCores(a.topo, a.details, cores[i]))])

isNUMANodeFree(a, id) ==
    Cardinality(CPUsInNUMANodes(a.topo, a.details, id)) = CPUsPerNUMANode(a.topo)

isSocketFree(a, id) ==
    Cardinality(CPUsInSockets(a.topo, a.details, id)) = CPUsPerSocket(a.topo)

isCoreFree(a, id) ==
    Cardinality(CPUsInCores(a.topo, a.details, id)) = CPUsPerCore(a.topo)

freeNUMANodes(a) == SelectSeq(sortAvailableNUMANodes(a), LAMBDA n : isNUMANodeFree(a, n))

freeSockets(a) == SelectSeq(sortAvailableSockets(a), LAMBDA s : isSocketFree(a, s))

freeCores(a) == SelectSeq(sortAvailableCores(a), LAMBDA c : isCoreFree(a, c))

freeCPUs(a) == sortAvailableCPUs(a)

\* The three whole-group takers share one loop body: claim the group's CPUs
\* (as the full topology lists them) when the request still needs that many.
takeGroup(a, cpus) ==
    IF ~needsAtLeast(a, Cardinality(cpus)) THEN a ELSE take(a, cpus)

RECURSIVE takeNUMALoop(_, _)
takeNUMALoop(a, ids) ==
    IF ids = <<>> THEN a
    ELSE takeNUMALoop(takeGroup(a, CPUsInNUMANodes(a.topo, AllCPUs(a.topo), Head(ids))),
                      Tail(ids))

RECURSIVE takeSocketLoop(_, _)
takeSocketLoop(a, ids) ==
    IF ids = <<>> THEN a
    ELSE takeSocketLoop(takeGroup(a, CPUsInSockets(a.topo, AllCPUs(a.topo), Head(ids))),
                        Tail(ids))

RECURSIVE takeCoreLoop(_, _)
takeCoreLoop(a, ids) ==
    IF ids = <<>> THEN a
    ELSE takeCoreLoop(takeGroup(a, CPUsInCores(a.topo, AllCPUs(a.topo), Head(ids))),
                      Tail(ids))

takeFullNUMANodes(a) == takeNUMALoop(a, freeNUMANodes(a))

takeFullSockets(a) == takeSocketLoop(a, freeSockets(a))

takeFullFirstLevel(a) == IF a.numaFirst THEN takeFullNUMANodes(a) ELSE takeFullSockets(a)

takeFullSecondLevel(a) == IF a.numaFirst THEN takeFullSockets(a) ELSE takeFullNUMANodes(a)

takeFullCoresSkipped(a) == a

takeFullCores(a) == takeCoreLoop(a, freeCores(a))

RECURSIVE takeCPULoop(_, _)
takeCPULoop(a, cpus) ==
    IF cpus = <<>> \/ isSatisfied(a) THEN a
    ELSE takeCPULoop(take(a, {Head(cpus)}), Tail(cpus))

takeRemainingCPUs(a) == takeCPULoop(a, sortAvailableCPUs(a))

\* Outcomes of a call: the CPU set and the error ("" for none).
NoError == [msg |-> "", requested |-> 0, available |-> 0]

NotEnoughCPUs(requested, available) ==
    [msg |-> "not enough cpus available to satisfy request",
     requested |-> requested, available |-> available]

FailedToAllocate == [msg |-> "failed to allocate cpus", requested |-> 0, available |-> 0]

Outcome(cpus, err) == [cpus |-> cpus, err |-> err]

takeByTopologyNUMAPacked(t, availableCPUs, numCPUs, ord) ==
    LET acc0 == newCPUAccumulator(t, availableCPUs, numCPUs, ord)
        acc1 == IF uncoreActive(acc0) THEN takeFullUncoreGroups(acc0) ELSE acc0
        acc2 == takeFullFirstLevel(acc1)
        acc3 == takeFullSecondLevel(acc2)
        acc4 == takeFullCores(acc3)
        acc5 == takeRemainingCPUs(acc4)
    IN  IF isSatisfied(acc0) THEN Outcome(acc0.result, NoError)
        ELSE IF isFailed(acc0)
             THEN Outcome({}, NotEnoughCPUs(numCPUs, Cardinality(availableCPUs)))
        ELSE IF isSatisfied(acc1) THEN Outcome(acc1.result, NoError)
        ELSE IF isSatisfied(acc2) THEN Outcome(acc2.result, NoError)
        ELSE IF isSatisfied(acc3) THEN Outcome(acc3.result, NoError)
        ELSE IF isSatisfied(acc4) THEN Outcome(acc4.result, NoError)
        ELSE IF isSatisfied(acc5) THEN Outcome(acc5.result, NoError)
        ELSE Outcome({}, FailedToAllocate)

(***************************************************************************)
(* CPU set strings (k8s.io/utils/cpuset)                                   *)
(* A string such as "0-3,8" is the sequence of its comma-separated tokens, *)
(* each token lo-hi a pair <<lo, hi>> and a single id n the pair <<n, n>>. *)
(* "" is the empty sequence.  A token <<lo, hi>> with lo > hi is malformed.*)
(***************************************************************************)
RunEnd(S, lo) == Max({h \in S : h >= lo /\ \A x \in lo..h : x \in S})

RECURSIVE CPUSetString(_)
CPUSetString(S) ==
    IF S = {} THEN <<>>
    ELSE LET lo == Min(S)
             hi == RunEnd(S, lo)
         IN  <<<<lo, hi>>>> \o CPUSetString(S \ (lo..hi))

ParseCPUSet(str) ==
    IF \E i \in 1..Len(str) : str[i][1] > str[i][2]
    THEN [ok |-> FALSE, set |-> {}]
    ELSE [ok |-> TRUE,
          set |-> UNION {str[i][1]..str[i][2] : i \in 1..Len(str)}]

(***************************************************************************)
(* Go maps.  A map[string]map[string]T is a function from pod UIDs to      *)
(* functions from container names to T; <<>> is the empty map.  Where a    *)
(* field may also be the nil map it is a record [isNil, m].                *)
(***************************************************************************)
EmptyMap == <<>>

NilMap == [isNil |-> TRUE, m |-> EmptyMap]

MadeMap(m) == [isNil |-> FALSE, m |-> m]

MapLen(m) == Cardinality(DOMAIN m)

MapPut(m, k, v) == [x \in DOMAIN m \cup {k} |-> IF x = k THEN v ELSE m[x]]

MapDelete(m, k) == [x \in DOMAIN m \ {k} |-> m[x]]

AnyOne(S) == IF S = {} THEN {} ELSE {CHOOSE x \in S : TRUE}

\* The (pod, container) keys of a two-level map.
Keys2(m) == UNION {{<<p, c>> : c \in DOMAIN m[p]} : p \in DOMAIN m}

(***************************************************************************)
(* Checksums.  checksum.New is FNV-32a over dump.ForHash of the object; it *)
(* is modelled as collision-free: the checksum of an object is the dump    *)
(* itself, <<dump>>, and the zero checksum is <<>>.  The dump prints the   *)
(* type name and every field but Checksum (held at 0), and prints a nil    *)
(* map differently from an empty one.                                      *)
(***************************************************************************)
ZeroChecksum == <<>>

Hash(object) == <<object>>

Dump(typeName, policyName, global, containerEntries, defaultCPUSet, entries) ==
    [type |-> typeName, PolicyName |-> policyName, Global |-> global,
     ContainerEntries |-> containerEntries, DefaultCPUSet |-> defaultCPUSet,
     Entries |-> entries]

\* A checksum that is the hash of nothing the store ever wrote.
GarbageChecksum == Hash(Dump("garbage", "", <<>>, EmptyMap, <<>>, NilMap))

DumpV3(cp) ==
    Dump("CPUManagerCheckpointV3", cp.PolicyName, cp.Global, cp.ContainerEntries,
         cp.DefaultCPUSet, cp.Entries)

DumpV2(cp, typeName) ==
    Dump(typeName, cp.PolicyName, <<>>, EmptyMap, cp.DefaultCPUSet, cp.Entries)

(***************************************************************************)
(* Checkpoint types (checkpoint.go)                                        *)
(***************************************************************************)
newCPUManagerCheckpointV2 ==
    [PolicyName |-> "", DefaultCPUSet |-> <<>>, Entries |-> MadeMap(EmptyMap),
     Checksum |-> ZeroChecksum]

newCPUManagerCheckpointV3 ==
    [PolicyName |-> "", Global |-> <<>>, ContainerEntries |-> EmptyMap,
     DefaultCPUSet |-> <<>>, Entries |-> NilMap, Checksum |-> ZeroChecksum]

\* Mutant: only the default set is mirrored.
computeV2CompatFieldsDefaultOnly(cp) == [cp EXCEPT !.DefaultCPUSet = cp.Global]

computeV2CompatFields(cp) ==
    [cp EXCEPT !.DefaultCPUSet = cp.Global,
               !.Entries = MadeMap([p \in DOMAIN cp.ContainerEntries |->
                               [c \in DOMAIN cp.ContainerEntries[p] |->
                                   cp.ContainerEntries[p][c]]])]

\* Mutant: only the first container of each pod is written.
updateFromCPUAssignmentFirstOnly(cp, assignments) ==
    [cp EXCEPT !.ContainerEntries =
        [p \in DOMAIN cp.ContainerEntries \cup DOMAIN assignments |->
            IF p \in DOMAIN assignments
            THEN [c \in AnyOne(DOMAIN assignments[p]) |->
                      CPUSetString(assignments[p][c])]
            ELSE cp.ContainerEntries[p]]]

updateFromCPUAssignment(cp, assignments) ==
    [cp EXCEPT !.ContainerEntries =
        [p \in DOMAIN cp.ContainerEntries \cup DOMAIN assignments |->
            IF p \in DOMAIN assignments
            THEN [c \in DOMAIN assignments[p] |-> CPUSetString(assignments[p][c])]
            ELSE cp.ContainerEntries[p]]]

\* The entries whose cpuset string does not parse, as the error names them:
\* <<cpuset string, container, pod>>.
UnparsableEntries(cp) ==
    {<<cp.ContainerEntries[k[1]][k[2]], k[2], k[1]>> :
        k \in {x \in Keys2(cp.ContainerEntries) :
                 ~ParseCPUSet(cp.ContainerEntries[x[1]][x[2]]).ok}}

\* computeCPUAssignments: [ok, assignments, names]; ok is FALSE when a cpuset
\* string of some container does not parse, and the error then names the
\* first such entry the iteration over the maps meets: any one of them.
computeCPUAssignments(cp) ==
    LET bad == \E p \in DOMAIN cp.ContainerEntries :
                   \E c \in DOMAIN cp.ContainerEntries[p] :
                       ~ParseCPUSet(cp.ContainerEntries[p][c]).ok
    IN  IF bad THEN [ok |-> FALSE, assignments |-> EmptyMap,
                     names |-> UnparsableEntries(cp)]
        ELSE [ok |-> TRUE, names |-> {},
              assignments |-> [p \in DOMAIN cp.ContainerEntries |->
                                  [c \in DOMAIN cp.ContainerEntries[p] |->
                                      ParseCPUSet(cp.ContainerEntries[p][c]).set]]]

\* MarshalCheckpoint, first half: the checksum field set from the content.
SetChecksumV2(cp) == [cp EXCEPT !.Checksum = Hash(DumpV2(cp, "CPUManagerCheckpointV2"))]

SetChecksumV3(cp) == [cp EXCEPT !.Checksum = Hash(DumpV3(cp))]

\* MarshalCheckpoint, second half: json.Marshal.  The omitempty maps are left
\* out when empty (nil or not); the Global struct is always written.
JSONOfV3(cp) ==
    [policyName |-> cp.PolicyName,
     hasGlobal |-> TRUE, globalEntries |-> cp.Global,
     hasContainerEntries |-> MapLen(cp.ContainerEntries) > 0,
     containerEntries |-> cp.ContainerEntries,
     defaultCpuSet |-> cp.DefaultCPUSet,
     hasEntries |-> MapLen(cp.Entries.m) > 0, entries |-> cp.Entries.m,
     checksum |-> cp.Checksum]

JSONOfV2(cp) ==
    [policyName |-> cp.PolicyName,
     hasGlobal |-> FALSE, globalEntries |-> <<>>,
     hasContainerEntries |-> FALSE, containerEntries |-> EmptyMap,
     defaultCpuSet |-> cp.DefaultCPUSet,
     hasEntries |-> MapLen(cp.Entries.m) > 0, entries |-> cp.Entries.m,
     checksum |-> cp.Checksum]

MarshalCheckpointV2(cp) == JSONOfV2(SetChecksumV2(cp))

MarshalCheckpointV3(cp) == JSONOfV3(SetChecksumV3(cp))

\* UnmarshalCheckpoint: json.Unmarshal into cp; a field the JSON does not carry
\* keeps the value cp had.
UnmarshalCheckpointV2(cp, json) ==
    [cp EXCEPT !.PolicyName = json.policyName,
               !.DefaultCPUSet = json.defaultCpuSet,
               !.Entries = IF json.hasEntries THEN MadeMap(json.entries) ELSE cp.Entries,
               !.Checksum = json.checksum]

UnmarshalCheckpointV3(cp, json) ==
    [cp EXCEPT !.PolicyName = json.policyName,
               !.Global = IF json.hasGlobal THEN json.globalEntries ELSE cp.Global,
               !.ContainerEntries = IF json.hasContainerEntries
                                    THEN json.containerEntries ELSE cp.ContainerEntries,
               !.DefaultCPUSet = json.defaultCpuSet,
               !.Entries = IF json.hasEntries THEN MadeMap(json.entries) ELSE cp.Entries,
               !.Checksum = json.checksum]

\* Errors: "" is nil.
ErrCheckpointNotFound == "checkpoint is not found"

ErrCorruptCheckpoint == "checkpoint is corrupted"

\* Mutant: every V2 checkpoint is accepted.
VerifyChecksumV2Lenient(cp) == ""

VerifyChecksumV2(cp) ==
    IF cp.Checksum = ZeroChecksum THEN ""
    ELSE IF cp.Checksum # Hash(DumpV2(cp, "CPUManagerCheckpoint"))
         THEN ErrCorruptCheckpoint
         ELSE ""

\* Mutant: the checksum field is left at zero after the dump.
VerifyChecksumV2CallNotRestored(cp) ==
    IF cp.Checksum = ZeroChecksum
    THEN [cp |-> cp, hashed |-> FALSE, err |-> VerifyChecksumV2(cp)]
    ELSE [cp |-> [cp EXCEPT !.Checksum = ZeroChecksum], hashed |-> TRUE,
          err |-> VerifyChecksumV2(cp)]

\* The whole V2 call: the object it leaves behind, whether it hashed, and the
\* error.  The checksum is saved, zeroed for the dump and put back.
VerifyChecksumV2Call(cp) ==
    IF cp.Checksum = ZeroChecksum
    THEN [cp |-> cp, hashed |-> FALSE, err |-> VerifyChecksumV2(cp)]
    ELSE LET saved == cp.Checksum
             zeroed == [cp EXCEPT !.Checksum = ZeroChecksum]
         IN  [cp |-> [zeroed EXCEPT !.Checksum = saved], hashed |-> TRUE,
              err |-> VerifyChecksumV2(cp)]

\* Mutant: every V3 checkpoint is accepted.
VerifyChecksumV3Lenient(cp) == ""

VerifyChecksumV3(cp) ==
    IF cp.Checksum # Hash(DumpV3(cp)) THEN ErrCorruptCheckpoint ELSE ""

\* The whole V3 call: the checksum is saved, zeroed for Verify and put back.
VerifyChecksumV3Call(cp) ==
    LET saved == cp.Checksum
        zeroed == [cp EXCEPT !.Checksum = ZeroChecksum]
    IN  [cp |-> [zeroed EXCEPT !.Checksum = saved], hashed |-> TRUE,
         err |-> VerifyChecksumV3(cp)]

(***************************************************************************)
(* In-memory state (state_mem.go) and the checkpoint manager               *)
(***************************************************************************)
NewMemoryState == [defaultCPUSet |-> {}, assignments |-> EmptyMap]

cacheSetCPUSet(s, podUID, containerName, cset) ==
    LET pod == IF podUID \in DOMAIN s.assignments
               THEN s.assignments[podUID] ELSE EmptyMap
    IN  [s EXCEPT !.assignments = MapPut(s.assignments, podUID,
                                         MapPut(pod, containerName, cset))]

cacheSetDefaultCPUSet(s, cset) == [s EXCEPT !.defaultCPUSet = cset]

cacheSetCPUAssignments(s, a) == [s EXCEPT !.assignments = a]

cacheDelete(s, podUID, containerName) ==
    IF podUID \notin DOMAIN s.assignments THEN s
    ELSE LET pod == MapDelete(s.assignments[podUID], containerName)
         IN  IF MapLen(pod) = 0
             THEN [s EXCEPT !.assignments = MapDelete(s.assignments, podUID)]
             ELSE [s EXCEPT !.assignments = MapPut(s.assignments, podUID, pod)]

cacheClearState(s) == NewMemoryState

\* The read calls of the store: each returns what the cache returns.
GetCPUSet(s, podUID, containerName) ==
    IF podUID \in DOMAIN s.assignments /\ containerName \in DOMAIN s.assignments[podUID]
    THEN [cset |-> s.assignments[podUID][containerName], ok |-> TRUE]
    ELSE [cset |-> {}, ok |-> FALSE]

GetDefaultCPUSet(s) == s.defaultCPUSet

GetCPUSetOrDefault(s, podUID, containerName) ==
    IF GetCPUSet(s, podUID, containerName).ok
    THEN GetCPUSet(s, podUID, containerName).cset
    ELSE GetDefaultCPUSet(s)

GetCPUAssignments(s) == s.assignments

\* The checkpoint file: <<>> when there is none, <<json>> otherwise.
NoFile == <<>>

ErrWriteFailed == "could not write checkpoint"

GetCheckpointV3(file, cp) ==
    IF file = NoFile THEN [err |-> ErrCheckpointNotFound, cp |-> cp]
    ELSE LET read == UnmarshalCheckpointV3(cp, file[1])
         IN  [err |-> VerifyChecksumV3(read), cp |-> read]

GetCheckpointV2(file, cp) ==
    IF file = NoFile THEN [err |-> ErrCheckpointNotFound, cp |-> cp]
    ELSE LET read == UnmarshalCheckpointV2(cp, file[1])
         IN  [err |-> VerifyChecksumV2(read), cp |-> read]

\* writeOK is the outcome of the file write: the file is replaced or untouched.
CreateCheckpoint(file, cp, writeOK) ==
    IF writeOK THEN [err |-> "", disk |-> <<MarshalCheckpointV3(cp)>>]
    ELSE [err |-> ErrWriteFailed, disk |-> file]

(***************************************************************************)
(* stateCheckpoint (state_checkpoint.go)                                   *)
(***************************************************************************)
\* Mutant: every legacy entry lands under the container name of the first.
migrateFlattened(src, dst) ==
    [dst EXCEPT !.ContainerEntries =
        [p \in DOMAIN src.Entries.m |->
            [c \in AnyOne(DOMAIN src.Entries.m[p]) |-> src.Entries.m[p][c]]]]

migrateV2CheckpointToV3Checkpoint(src, dst) ==
    [dst EXCEPT
        !.PolicyName = IF src.PolicyName # "" THEN src.PolicyName ELSE dst.PolicyName,
        !.Global = IF src.DefaultCPUSet # <<>> THEN src.DefaultCPUSet ELSE dst.Global,
        !.ContainerEntries =
            [p \in DOMAIN dst.ContainerEntries \cup DOMAIN src.Entries.m |->
                IF p \notin DOMAIN src.Entries.m THEN dst.ContainerEntries[p]
                ELSE LET old == IF p \in DOMAIN dst.ContainerEntries
                                THEN dst.ContainerEntries[p] ELSE EmptyMap
                     IN  [c \in DOMAIN old \cup DOMAIN src.Entries.m[p] |->
                             IF c \in DOMAIN src.Entries.m[p]
                             THEN src.Entries.m[p][c] ELSE old[c]]]]

loadState(file) ==
    LET v3 == GetCheckpointV3(file, newCPUManagerCheckpointV3)
        v2 == GetCheckpointV2(file, newCPUManagerCheckpointV2)
    IN  IF v3.err = "" THEN [err |-> "", cp |-> v3.cp]
        ELSE IF v2.err = ""
             THEN [err |-> "", cp |-> migrateV2CheckpointToV3Checkpoint(v2.cp, v3.cp)]
             ELSE [err |-> v2.err, cp |-> newCPUManagerCheckpointV3]

\* Mutant: the checkpoint carries no policy name.
storeStateNoPolicy(policyName, mem, file, writeOK) ==
    CreateCheckpoint(file,
        computeV2CompatFields(updateFromCPUAssignment(
            [newCPUManagerCheckpointV3 EXCEPT
                !.Global = CPUSetString(mem.defaultCPUSet)], mem.assignments)),
        writeOK)

\* Mutant: the default set is left out of the checkpoint.
storeStateNoDefault(policyName, mem, file, writeOK) ==
    CreateCheckpoint(file,
        computeV2CompatFields(updateFromCPUAssignment(
            [newCPUManagerCheckpointV3 EXCEPT !.PolicyName = policyName],
            mem.assignments)),
        writeOK)

storeState(policyName, mem, file, writeOK) ==
    CreateCheckpoint(file,
        computeV2CompatFields(updateFromCPUAssignment(
            [newCPUManagerCheckpointV3 EXCEPT
                !.PolicyName = policyName,
                !.Global = CPUSetString(mem.defaultCPUSet)], mem.assignments)),
        writeOK)

ErrPolicyMismatch == "configured policy differs from state checkpoint policy"

ErrParseDefault == "could not parse default cpu set"

ErrParseContainer == "could not parse cpuset for container"

\* Mutant: any recorded policy name is accepted.
policyDiffersNever(configured, recorded) == FALSE

\* restoreState, the policy comparison.
policyDiffers(configured, recorded) == configured # recorded

\* Mutant: the default set is put in the cache before the assignments are
\* parsed.
restoreStateEager(policyName, mem, file, writeOK) ==
    LET loaded == loadState(file)
        tmpDefaultCPUSet == ParseCPUSet(loaded.cp.Global)
        tmpAssignments == computeCPUAssignments(loaded.cp)
        stored == storeState(policyName, mem, file, writeOK)
        failed(e, names) == [err |-> e, names |-> names, cache |-> mem, disk |-> file]
    IN  IF loaded.err = ErrCheckpointNotFound
        THEN [err |-> stored.err, names |-> {<<>>}, cache |-> mem, disk |-> stored.disk]
        ELSE IF loaded.err # "" THEN failed(loaded.err, {<<>>})
        ELSE IF policyDiffers(policyName, loaded.cp.PolicyName)
        THEN failed(ErrPolicyMismatch, {<<>>})
        ELSE IF ~tmpDefaultCPUSet.ok THEN failed(ErrParseDefault, {<<loaded.cp.Global>>})
        ELSE IF ~tmpAssignments.ok
        THEN [err |-> ErrParseContainer, names |-> tmpAssignments.names,
              cache |-> cacheSetDefaultCPUSet(mem, tmpDefaultCPUSet.set), disk |-> file]
        ELSE [err |-> "", names |-> {<<>>},
              cache |-> cacheSetCPUAssignments(
                            cacheSetDefaultCPUSet(mem, tmpDefaultCPUSet.set),
                            tmpAssignments.assignments),
              disk |-> file]

\* Mutant: a loaded checkpoint is written back at once.
restoreStateRewrites(policyName, mem, file, writeOK) ==
    LET loaded == loadState(file)
        tmpDefaultCPUSet == ParseCPUSet(loaded.cp.Global)
        tmpAssignments == computeCPUAssignments(loaded.cp)
        stored == storeState(policyName, mem, file, writeOK)
        failed(e, names) == [err |-> e, names |-> names, cache |-> mem, disk |-> file]
        restored == cacheSetCPUAssignments(
                        cacheSetDefaultCPUSet(mem, tmpDefaultCPUSet.set),
                        tmpAssignments.assignments)
    IN  IF loaded.err = ErrCheckpointNotFound
        THEN [err |-> stored.err, names |-> {<<>>}, cache |-> mem, disk |-> stored.disk]
        ELSE IF loaded.err # "" THEN failed(loaded.err, {<<>>})
        ELSE IF policyDiffers(policyName, loaded.cp.PolicyName)
        THEN failed(ErrPolicyMismatch, {<<>>})
        ELSE IF ~tmpDefaultCPUSet.ok THEN failed(ErrParseDefault, {<<loaded.cp.Global>>})
        ELSE IF ~tmpAssignments.ok THEN failed(ErrParseContainer, tmpAssignments.names)
        ELSE [err |-> "", names |-> {<<>>}, cache |-> restored,
              disk |-> storeState(policyName, restored, file, TRUE).disk]

\* restoreState: [err, names, mem, file] after the call; names holds what the
\* error may name (the cpuset string, and container and pod for an entry).
restoreState(policyName, mem, file, writeOK) ==
    LET loaded == loadState(file)
        tmpDefaultCPUSet == ParseCPUSet(loaded.cp.Global)
        tmpAssignments == computeCPUAssignments(loaded.cp)
        stored == storeState(policyName, mem, file, writeOK)
        failed(e, names) == [err |-> e, names |-> names, cache |-> mem, disk |-> file]
    IN  IF loaded.err = ErrCheckpointNotFound
        THEN [err |-> stored.err, names |-> {<<>>}, cache |-> mem, disk |-> stored.disk]
        ELSE IF loaded.err # "" THEN failed(loaded.err, {<<>>})
        ELSE IF policyDiffers(policyName, loaded.cp.PolicyName)
        THEN failed(ErrPolicyMismatch, {<<>>})
        ELSE IF ~tmpDefaultCPUSet.ok THEN failed(ErrParseDefault, {<<loaded.cp.Global>>})
        ELSE IF ~tmpAssignments.ok THEN failed(ErrParseContainer, tmpAssignments.names)
        ELSE [err |-> "", names |-> {<<>>},
              cache |-> cacheSetCPUAssignments(
                            cacheSetDefaultCPUSet(mem, tmpDefaultCPUSet.set),
                            tmpAssignments.assignments),
              disk |-> file]

(***************************************************************************)
(* Values of the variables a specification does not use                   *)
(***************************************************************************)
NoOp == [op |-> "none", found |-> FALSE, err |-> "", named |-> <<>>]

NoHandoff == [valid |-> FALSE, policy |-> "", cache |-> NewMemoryState]

NoBudget == [calls |-> 0, tampers |-> 0]

StoreIdle ==
    /\ disk = NoFile
    /\ scState = "none"
    /\ scPolicy = ""
    /\ cache = NewMemoryState
    /\ lastOp = NoOp
    /\ handoff = NoHandoff
    /\ budget = NoBudget

CkIdle == ck = <<>>

AllocIdle == callers = <<>>

NoMux == [writer |-> "none", readers |-> {}]

NoHist == [acquired |-> <<>>, applied |-> <<>>, written |-> <<>>]

LockIdle == mux = NoMux /\ threads = <<>> /\ hist = NoHist

PluginIdle == stub = <<>>

PureIdle == pure = <<>>

PolicyIdle == plug = <<>>

\* ---- SetupTopologyByPolicyOptions (part_001).  A *CPUTopology is an
\* address into a heap of topology objects; the call returns the heap it
\* leaves behind and the address it returns.
StaticPolicyOptions == [AlignByUnCoreCache : BOOLEAN]

DeepCopy(heap, topology) ==
    [heap |-> Append(heap, heap[topology]), ret |-> Len(heap) + 1]

SetupTopologyByPolicyOptionsInPlace(heap, topology, opts) ==
    IF opts.AlignByUnCoreCache THEN [heap |-> heap, ret |-> topology]
    ELSE [heap |-> [heap EXCEPT ![topology].NumUnCoreCaches = 0], ret |-> topology]

SetupTopologyByPolicyOptions(heap, topology, opts) ==
    IF opts.AlignByUnCoreCache THEN [heap |-> heap, ret |-> topology]
    ELSE LET copy == DeepCopy(heap, topology)
         IN  [heap |-> [copy.heap EXCEPT ![copy.ret].NumUnCoreCaches = 0],
              ret |-> copy.ret]

(***************************************************************************)
(* SpecTake: calls of takeByTopologyNUMAPacked, iterated as takeIterator   *)
(* does (each result is removed from the available set before the next     *)
(* call), and a failed or successful call repeated on the same inputs.     *)
(***************************************************************************)
NoCall == [made |-> FALSE, n |-> 0, avail |-> {}, ord |-> "asc",
           out |-> Outcome({}, NoError)]

Requests(t) == 0..(t.NumCPUs + 1)

TakeInit ==
    /\ topo \in Topologies
    /\ cpuSet \in SUBSET AllCPUs(topo)
    /\ lastCall = NoCall
    /\ retryCall = NoCall
    /\ StoreIdle /\ CkIdle /\ AllocIdle /\ LockIdle /\ PluginIdle /\ PureIdle /\ PolicyIdle

\* One iteration of takeIterator's loop.
TakeStep ==
    /\ ~retryCall.made
    /\ \E n \in Requests(topo), ord \in IterOrders :
        LET out == takeByTopologyNUMAPacked(topo, cpuSet, n, ord)
        IN  /\ lastCall' = [made |-> TRUE, n |-> n, avail |-> cpuSet, ord |-> ord,
                            out |-> out]
            /\ cpuSet' = IF out.err = NoError THEN cpuSet \ out.cpus ELSE cpuSet
            /\ retryCall' = NoCall
            /\ UNCHANGED <<topo, storeVars, ck, callers, lockVars, pluginVars, pureVars, policyVars>>

\* The identical call once more, on the inputs of the last call.
TakeAgain ==
    /\ lastCall.made
    /\ ~retryCall.made
    /\ \E ord \in IterOrders :
        retryCall' = [made |-> TRUE, n |-> lastCall.n, avail |-> lastCall.avail,
                      ord |-> ord,
                      out |-> takeByTopologyNUMAPacked(topo, lastCall.avail,
                                                       lastCall.n, ord)]
    /\ UNCHANGED <<topo, cpuSet, lastCall, storeVars, ck, callers, lockVars, pluginVars, pureVars, policyVars>>

TakeNext == TakeStep \/ TakeAgain

SpecTake == TakeInit /\ [][TakeNext]_vars

TakeIdle ==
    /\ topo = topoDualSocketNoHT
    /\ cpuSet = {}
    /\ lastCall = NoCall
    /\ retryCall = NoCall

(***************************************************************************)
(* SpecStore: the life of the checkpoint file across kubelet runs.  A run  *)
(* constructs the store (NewCheckpointState), makes mutating calls, and    *)
(* goes away (Restart); between runs the file may be damaged (TamperFile). *)
(* The first run may find no file, or one left by an older kubelet.        *)
(***************************************************************************)
MaxCalls == 2

MaxTampers == 1

PolicyNames == {"static", "none"}

PodUIDs == {"pod1", "pod2"}

ContainerNames == {"c1", "c2"}

ContainerSets == {{0}, {1, 2}}

DefaultSets == {{0, 1, 2, 3}, {0, 3}}

AssignmentInputs ==
    {EmptyMap,
     "pod1" :> EmptyMap,
     "pod1" :> ("c1" :> {1, 2} @@ "c2" :> {3})}

\* What a kubelet of the V2 era wrote: its type was named CPUManagerCheckpoint.
LegacyFile(policyName, defaultCPUSet, entries) ==
    LET cp == [newCPUManagerCheckpointV2 EXCEPT !.PolicyName = policyName,
                                                !.DefaultCPUSet = defaultCPUSet,
                                                !.Entries = MadeMap(entries)]
    IN  JSONOfV2([cp EXCEPT !.Checksum = Hash(DumpV2(cp, "CPUManagerCheckpoint"))])

\* What the old file backend wrote: no checksum.
OldBackendFile(policyName, defaultCPUSet, entries) ==
    [LegacyFile(policyName, defaultCPUSet, entries) EXCEPT !.checksum = ZeroChecksum]

LegacyEntries ==
    {EmptyMap, "pod1" :> ("c1" :> <<<<0, 0>>>> @@ "c2" :> <<<<1, 2>>>>)}

InitialDisks ==
    {NoFile}
    \cup {<<LegacyFile("static", <<<<0, 3>>>>, e)>> : e \in LegacyEntries}
    \cup {<<LegacyFile("static", <<>>, EmptyMap)>>}
    \cup {<<OldBackendFile("none", <<<<3, 3>>>>, e)>> : e \in LegacyEntries}

StoreInit ==
    /\ disk \in InitialDisks
    /\ scState = "none"
    /\ scPolicy = ""
    /\ cache = NewMemoryState
    /\ lastOp = NoOp
    /\ handoff = NoHandoff
    /\ budget = NoBudget
    /\ TakeIdle /\ CkIdle /\ AllocIdle /\ LockIdle /\ PluginIdle /\ PureIdle /\ PolicyIdle

NewCheckpointState ==
    /\ scState = "none"
    /\ \E policyName \in PolicyNames, writeOK \in BOOLEAN :
        LET restored == restoreState(policyName, NewMemoryState, disk, writeOK)
        IN  /\ scState' = IF restored.err = "" THEN "ready" ELSE "failed"
            /\ scPolicy' = policyName
            /\ cache' = restored.cache
            /\ disk' = restored.disk
            /\ \E named \in restored.names :
                lastOp' = [op |-> "NewCheckpointState", found |-> disk # NoFile,
                           err |-> restored.err, named |-> named]
    /\ UNCHANGED <<handoff, budget, takeVars, ck, callers, lockVars, pluginVars, pureVars, policyVars>>

\* Mutant: a failed write undoes the update of the cache.
MutationRolledBack(op, newCache) ==
    \E writeOK \in BOOLEAN :
        LET stored == storeState(scPolicy, newCache, disk, writeOK)
        IN  /\ cache' = IF writeOK THEN newCache ELSE cache
            /\ disk' = stored.disk
            /\ lastOp' = [op |-> op, found |-> FALSE, err |-> stored.err,
                          named |-> <<>>]

\* A mutating call: the cache is updated, then storeState runs; its error is
\* logged, not returned.
Mutation(op, newCache) ==
    \E writeOK \in BOOLEAN :
        LET stored == storeState(scPolicy, newCache, disk, writeOK)
        IN  /\ cache' = newCache
            /\ disk' = stored.disk
            /\ lastOp' = [op |-> op, found |-> FALSE, err |-> stored.err,
                          named |-> <<>>]

StoreCall(op, newCache) ==
    /\ scState = "ready"
    /\ budget.calls < MaxCalls
    /\ Mutation(op, newCache)
    /\ budget' = [budget EXCEPT !.calls = @ + 1]
    /\ UNCHANGED <<scState, scPolicy, handoff, takeVars, ck, callers, lockVars, pluginVars, pureVars, policyVars>>

SetCPUSet ==
    \E podUID \in PodUIDs, containerName \in ContainerNames, cset \in ContainerSets :
        StoreCall("SetCPUSet", cacheSetCPUSet(cache, podUID, containerName, cset))

SetDefaultCPUSet ==
    \E cset \in DefaultSets :
        StoreCall("SetDefaultCPUSet", cacheSetDefaultCPUSet(cache, cset))

SetCPUAssignments ==
    \E a \in AssignmentInputs :
        StoreCall("SetCPUAssignments", cacheSetCPUAssignments(cache, a))

Delete ==
    \E podUID \in PodUIDs, containerName \in ContainerNames :
        StoreCall("Delete", cacheDelete(cache, podUID, containerName))

ClearState == StoreCall("ClearState", cacheClearState(cache))

MutatingCalls ==
    {"SetCPUSet", "SetDefaultCPUSet", "SetCPUAssignments", "Delete", "ClearState"}

\* The kubelet goes away; its memory is lost, the file stays.
Restart ==
    /\ scState # "none"
    /\ scState' = "none"
    /\ handoff' = IF scState = "ready" /\ lastOp.op \in MutatingCalls /\ lastOp.err = ""
                  THEN [valid |-> TRUE, policy |-> scPolicy, cache |-> cache]
                  ELSE NoHandoff
    /\ scPolicy' = ""
    /\ cache' = NewMemoryState
    /\ lastOp' = [NoOp EXCEPT !.op = "Restart"]
    /\ UNCHANGED <<disk, budget, takeVars, ck, callers, lockVars, pluginVars, pureVars, policyVars>>

\* Cpuset strings a damaged file may carry: another set, or a malformed range.
TamperStrings == {<<<<3, 3>>>>, <<<<3, 1>>>>}

TamperEntries(m) ==
    {[m EXCEPT ![k[1]][k[2]] = str] : k \in Keys2(m), str \in TamperStrings} \ {m}

\* Every file that differs from json in exactly one field.
Tamperings(json) ==
    {[json EXCEPT !.policyName = n] : n \in PolicyNames \ {json.policyName}}
    \cup {[json EXCEPT !.globalEntries = str] :
             str \in {x \in TamperStrings : json.hasGlobal} \ {json.globalEntries}}
    \cup {[json EXCEPT !.defaultCpuSet = str] :
             str \in TamperStrings \ {json.defaultCpuSet}}
    \cup {[json EXCEPT !.containerEntries = m] :
             m \in TamperEntries(json.containerEntries)}
    \cup {[json EXCEPT !.entries = m] : m \in TamperEntries(json.entries)}
    \cup {[json EXCEPT !.checksum = c] :
             c \in {ZeroChecksum, GarbageChecksum} \ {json.checksum}}

TamperFile ==
    /\ scState = "none"
    /\ disk # NoFile
    /\ budget.tampers < MaxTampers
    /\ \E json \in Tamperings(disk[1]) : disk' = <<json>>
    /\ handoff' = NoHandoff
    /\ lastOp' = [NoOp EXCEPT !.op = "TamperFile"]
    /\ budget' = [budget EXCEPT !.tampers = @ + 1]
    /\ UNCHANGED <<scState, scPolicy, cache, takeVars, ck, callers, lockVars, pluginVars, pureVars, policyVars>>

StoreNext ==
    \/ NewCheckpointState
    \/ SetCPUSet
    \/ SetDefaultCPUSet
    \/ SetCPUAssignments
    \/ Delete
    \/ ClearState
    \/ Restart
    \/ TamperFile

SpecStore == StoreInit /\ [][StoreNext]_vars

(***************************************************************************)
(* SpecCkpt: one checkpoint object, V2 or V3.  It is marshalled, one of    *)
(* its fields is then changed, and it is verified; or, a V2 object, it is  *)
(* migrated into a V3 object.                                              *)
(***************************************************************************)
V3Object(policyName, mem, mirrored, checksum) ==
    LET cp == updateFromCPUAssignment(
                  [newCPUManagerCheckpointV3 EXCEPT
                      !.PolicyName = policyName,
                      !.Global = CPUSetString(mem.defaultCPUSet),
                      !.Checksum = checksum], mem.assignments)
    IN  IF mirrored THEN computeV2CompatFields(cp) ELSE cp

V3Objects ==
    {V3Object(n, [defaultCPUSet |-> d, assignments |-> a], mirrored, c) :
        n \in {"static"}, d \in {{}, {0, 3}}, a \in AssignmentInputs,
        mirrored \in BOOLEAN, c \in {ZeroChecksum, GarbageChecksum}}

V2Objects ==
    {[PolicyName |-> n, DefaultCPUSet |-> d, Entries |-> MadeMap(e), Checksum |-> c] :
        n \in {"static", ""}, d \in {<<>>, <<<<0, 3>>>>},
        e \in LegacyEntries \cup {"pod1" :> ("c1" :> <<<<0, 0>>>>)
                                  @@ "pod2" :> ("c1" :> <<<<1, 2>>>>)},
        c \in {ZeroChecksum, GarbageChecksum}}

CkObject(kind, v2, v3) ==
    [stage |-> "new", kind |-> kind, v2 |-> v2, v3 |-> v3, field |-> "none",
     err |-> "", out |-> newCPUManagerCheckpointV3,
     given |-> [v2 |-> v2, v3 |-> v3], hashed |-> FALSE]

CkInit ==
    /\ ck \in {CkObject("V2", v2, newCPUManagerCheckpointV3) : v2 \in V2Objects}
         \cup {CkObject("V3", newCPUManagerCheckpointV2, v3) : v3 \in V3Objects}
    /\ TakeIdle /\ StoreIdle /\ AllocIdle /\ LockIdle /\ PluginIdle /\ PureIdle /\ PolicyIdle

\* MarshalCheckpoint, as far as the object is concerned.
CkMarshal ==
    /\ ck.stage = "new"
    /\ ck' = [ck EXCEPT !.stage = "marshalled",
                        !.v2 = IF ck.kind = "V2" THEN SetChecksumV2(@) ELSE @,
                        !.v3 = IF ck.kind = "V3" THEN SetChecksumV3(@) ELSE @]
    /\ UNCHANGED <<takeVars, storeVars, callers, lockVars, pluginVars, pureVars, policyVars>>

OtherNames == {"static", "none", ""}

OtherStrings == TamperStrings \cup {<<>>}

\* Every map that differs from m in one entry, added, dropped or altered.
AlteredMaps(m) ==
    (TamperEntries(m)
     \cup {MapPut(m, "pod9", EmptyMap)}
     \cup {MapDelete(m, p) : p \in DOMAIN m}) \ {m}

AlteredEntries(e) ==
    ({MadeMap(m) : m \in AlteredMaps(e.m)}
     \cup {x \in {NilMap, MadeMap(EmptyMap)} : e.m = EmptyMap}) \ {e}

\* Every [field, obj] with obj differing from cp in that one field.
ChangesV2(cp) ==
    {[field |-> "PolicyName", obj |-> [cp EXCEPT !.PolicyName = n]] :
        n \in OtherNames \ {cp.PolicyName}}
    \cup {[field |-> "DefaultCPUSet", obj |-> [cp EXCEPT !.DefaultCPUSet = str]] :
        str \in OtherStrings \ {cp.DefaultCPUSet}}
    \cup {[field |-> "Entries", obj |-> [cp EXCEPT !.Entries = e]] :
        e \in AlteredEntries(cp.Entries)}
    \cup {[field |-> "Checksum", obj |-> [cp EXCEPT !.Checksum = c]] :
        c \in {ZeroChecksum, GarbageChecksum,
               Hash(DumpV2(cp, "CPUManagerCheckpoint"))} \ {cp.Checksum}}

ChangesV3(cp) ==
    {[field |-> "PolicyName", obj |-> [cp EXCEPT !.PolicyName = n]] :
        n \in OtherNames \ {cp.PolicyName}}
    \cup {[field |-> "Global", obj |-> [cp EXCEPT !.Global = str]] :
        str \in OtherStrings \ {cp.Global}}
    \cup {[field |-> "ContainerEntries", obj |-> [cp EXCEPT !.ContainerEntries = m]] :
        m \in AlteredMaps(cp.ContainerEntries)}
    \cup {[field |-> "DefaultCPUSet", obj |-> [cp EXCEPT !.DefaultCPUSet = str]] :
        str \in OtherStrings \ {cp.DefaultCPUSet}}
    \cup {[field |-> "Entries", obj |-> [cp EXCEPT !.Entries = e]] :
        e \in AlteredEntries(cp.Entries)}
    \cup {[field |-> "Checksum", obj |-> [cp EXCEPT !.Checksum = c]] :
        c \in {ZeroChecksum, GarbageChecksum} \ {cp.Checksum}}

CkChange ==
    /\ ck.stage = "marshalled"
    /\ \/ /\ ck.kind = "V2"
          /\ \E ch \in ChangesV2(ck.v2) :
                ck' = [ck EXCEPT !.stage = "changed", !.field = ch.field, !.v2 = ch.obj]
       \/ /\ ck.kind = "V3"
          /\ \E ch \in ChangesV3(ck.v3) :
                ck' = [ck EXCEPT !.stage = "changed", !.field = ch.field, !.v3 = ch.obj]
    /\ UNCHANGED <<takeVars, storeVars, callers, lockVars, pluginVars, pureVars, policyVars>>

CkVerify ==
    /\ ck.stage \in {"marshalled", "changed"}
    /\ LET r == IF ck.kind = "V2" THEN VerifyChecksumV2Call(ck.v2)
                ELSE VerifyChecksumV3Call(ck.v3)
       IN  ck' = [ck EXCEPT !.stage = "verified",
                            !.given = [v2 |-> ck.v2, v3 |-> ck.v3],
                            !.v2 = IF ck.kind = "V2" THEN r.cp ELSE @,
                            !.v3 = IF ck.kind = "V3" THEN r.cp ELSE @,
                            !.hashed = r.hashed,
                            !.err = r.err]
    /\ UNCHANGED <<takeVars, storeVars, callers, lockVars, pluginVars, pureVars, policyVars>>

\* The V3 objects a V2 object is migrated into: a fresh one, the one loadState
\* passes (the same file read as V3), and one that already holds an entry.
MigrationTargets(src) ==
    {newCPUManagerCheckpointV3,
     UnmarshalCheckpointV3(newCPUManagerCheckpointV3, JSONOfV2(src)),
     [newCPUManagerCheckpointV3 EXCEPT
         !.ContainerEntries = "pod1" :> ("c9" :> <<<<3, 3>>>>)]}

CkMigrate ==
    /\ ck.stage = "new"
    /\ ck.kind = "V2"
    /\ \E dst \in MigrationTargets(ck.v2) :
        ck' = [ck EXCEPT !.stage = "migrated", !.v3 = dst,
                         !.out = migrateV2CheckpointToV3Checkpoint(ck.v2, dst)]
    /\ UNCHANGED <<takeVars, storeVars, callers, lockVars, pluginVars, pureVars, policyVars>>

CkNext == CkMarshal \/ CkChange \/ CkVerify \/ CkMigrate

SpecCkpt == CkInit /\ [][CkNext]_vars

(***************************************************************************)
(* SpecAlloc: callers running the allocation flow against one store.  A   *)
(* caller reads the default pool, runs the accumulator on it, removes the  *)
(* chosen CPUs from the default pool and records them for its container.   *)
(* Each store call is atomic (it holds the store's lock); nothing spans    *)
(* the calls of one flow.                                                  *)
(***************************************************************************)
Callers == {"admit1", "admit2"}

PodOf(i) == IF i = "admit1" THEN "pod1" ELSE "pod2"

AllocRequests == {1, 2}

NoFlow == [pc |-> "idle", n |-> 0, pool |-> {}, chosen |-> {}]

AllocInit ==
    /\ topo \in {topoDualSocketNoHT, topoSingleSocketHT}
    /\ cpuSet = {}
    /\ lastCall = NoCall
    /\ retryCall = NoCall
    /\ scState = "ready"
    /\ scPolicy = "static"
    /\ cache = [defaultCPUSet |-> AllCPUs(topo), assignments |-> EmptyMap]
    /\ disk = storeState(scPolicy, cache, NoFile, TRUE).disk
    /\ lastOp = [NoOp EXCEPT !.op = "SetDefaultCPUSet"]
    /\ handoff = NoHandoff
    /\ budget = NoBudget
    /\ callers = [i \in Callers |-> NoFlow]
    /\ CkIdle /\ LockIdle /\ PluginIdle /\ PureIdle /\ PolicyIdle

\* GetDefaultCPUSet
AllocRead(i) ==
    /\ callers[i].pc = "idle"
    /\ \E n \in AllocRequests :
        callers' = [callers EXCEPT ![i] = [pc |-> "read", n |-> n,
                                           pool |-> cache.defaultCPUSet,
                                           chosen |-> {}]]
    /\ UNCHANGED <<takeVars, storeVars, ck, lockVars, pluginVars, pureVars, policyVars>>

AllocPick(i) ==
    /\ callers[i].pc = "read"
    /\ \E ord \in IterOrders :
        LET out == takeByTopologyNUMAPacked(topo, callers[i].pool, callers[i].n, ord)
        IN  callers' = [callers EXCEPT
                ![i].pc = IF out.err = NoError THEN "picked" ELSE "failed",
                ![i].chosen = out.cpus]
    /\ UNCHANGED <<takeVars, storeVars, ck, lockVars, pluginVars, pureVars, policyVars>>

\* SetDefaultCPUSet(GetDefaultCPUSet() minus the chosen CPUs)
AllocRemoveFromPool(i) ==
    /\ callers[i].pc = "picked"
    /\ Mutation("SetDefaultCPUSet",
                cacheSetDefaultCPUSet(cache, cache.defaultCPUSet \ callers[i].chosen))
    /\ callers' = [callers EXCEPT ![i].pc = "removed"]
    /\ UNCHANGED <<takeVars, scState, scPolicy, handoff, budget, ck, lockVars, pluginVars, pureVars, policyVars>>

\* SetCPUSet(pod, container, chosen)
AllocAssign(i) ==
    /\ callers[i].pc = "removed"
    /\ Mutation("SetCPUSet", cacheSetCPUSet(cache, PodOf(i), "c1", callers[i].chosen))
    /\ callers' = [callers EXCEPT ![i].pc = "done"]
    /\ UNCHANGED <<takeVars, scState, scPolicy, handoff, budget, ck, lockVars, pluginVars, pureVars, policyVars>>

AllocNext ==
    \E i \in Callers :
        \/ AllocRead(i)
        \/ AllocPick(i)
        \/ AllocRemoveFromPool(i)
        \/ AllocAssign(i)

SpecAlloc == AllocInit /\ [][AllocNext]_vars

(***************************************************************************)
(* SpecLock: goroutines calling one store concurrently.  Every method of   *)
(* stateCheckpoint takes sc.mux first (Lock in the mutating calls, RLock   *)
(* in the getters) and releases it by a deferred unlock when it returns.   *)
(* A mutating call is split into its steps: lock, update of the cache,     *)
(* storeState, return; a getter into lock, read, return.                   *)
(***************************************************************************)
Threads == {"t1", "t2", "t3"}

\* Mutant: the mutating calls take the lock in shared mode.
MutatorLockShared == "RLock"

\* sc.mux.Lock() in SetCPUSet, SetDefaultCPUSet, SetCPUAssignments, Delete
\* and ClearState
MutatorLock == "Lock"

\* sc.mux.RLock() in the getters
GetterLock == "RLock"

\* Mutant: the lock is released right after it was taken.
UnlockAtOnce == FALSE

\* defer sc.mux.Unlock(): the lock is held until the call returns
UnlockDeferred == TRUE

\* sync.RWMutex: Lock waits for the writer and all readers to leave, RLock
\* waits for the writer only.
CanAcquire(mode, m) ==
    IF mode = "Lock" THEN m.writer = "none" /\ m.readers = {}
    ELSE m.writer = "none"

Acquire(mode, t, m) ==
    IF mode = "Lock" THEN [m EXCEPT !.writer = t]
    ELSE [m EXCEPT !.readers = @ \cup {t}]

Release(t, m) ==
    [writer |-> IF m.writer = t THEN "none" ELSE m.writer,
     readers |-> m.readers \ {t}]

ThreadCall(op, podUID, containerName, cset, a) ==
    [op |-> op, podUID |-> podUID, containerName |-> containerName,
     cset |-> cset, a |-> a]

LockCalls ==
    {ThreadCall("SetCPUSet", "pod1", "c2", {0}, EmptyMap),
     ThreadCall("SetDefaultCPUSet", "", "", {0, 3}, EmptyMap),
     ThreadCall("SetCPUAssignments", "", "", {}, "pod2" :> ("c1" :> {3})),
     ThreadCall("Delete", "pod1", "c1", {}, EmptyMap),
     ThreadCall("ClearState", "", "", {}, EmptyMap),
     ThreadCall("GetCPUSet", "pod1", "c1", {}, EmptyMap),
     ThreadCall("GetDefaultCPUSet", "", "", {}, EmptyMap),
     ThreadCall("GetCPUSetOrDefault", "pod1", "c2", {}, EmptyMap),
     ThreadCall("GetCPUAssignments", "", "", {}, EmptyMap)}

ReadCalls ==
    {"GetCPUSet", "GetDefaultCPUSet", "GetCPUSetOrDefault", "GetCPUAssignments"}

\* the cache update of a mutating call
ApplyCall(call, mem) ==
    CASE call.op = "SetCPUSet" ->
            cacheSetCPUSet(mem, call.podUID, call.containerName, call.cset)
      [] call.op = "SetDefaultCPUSet" -> cacheSetDefaultCPUSet(mem, call.cset)
      [] call.op = "SetCPUAssignments" -> cacheSetCPUAssignments(mem, call.a)
      [] call.op = "Delete" -> cacheDelete(mem, call.podUID, call.containerName)
      [] call.op = "ClearState" -> cacheClearState(mem)

NoAnswer == [cset |-> {}, ok |-> FALSE, a |-> EmptyMap]

\* what a getter returns
ReadCall(call, mem) ==
    CASE call.op = "GetCPUSet" ->
            [NoAnswer EXCEPT
                !.cset = GetCPUSet(mem, call.podUID, call.containerName).cset,
                !.ok = GetCPUSet(mem, call.podUID, call.containerName).ok]
      [] call.op = "GetDefaultCPUSet" ->
            [NoAnswer EXCEPT !.cset = GetDefaultCPUSet(mem), !.ok = TRUE]
      [] call.op = "GetCPUSetOrDefault" ->
            [NoAnswer EXCEPT
                !.cset = GetCPUSetOrDefault(mem, call.podUID, call.containerName),
                !.ok = TRUE]
      [] call.op = "GetCPUAssignments" ->
            [NoAnswer EXCEPT !.a = GetCPUAssignments(mem), !.ok = TRUE]

NoThread == [pc |-> "idle", call |-> ThreadCall("none", "", "", {}, EmptyMap),
             err |-> "", seen |-> NoAnswer]

LockInitialCache ==
    [defaultCPUSet |-> {0, 3}, assignments |-> "pod1" :> ("c1" :> {1, 2})]

LockInit ==
    /\ scState = "ready"
    /\ scPolicy = "static"
    /\ cache = LockInitialCache
    /\ disk = storeState(scPolicy, cache, NoFile, TRUE).disk
    /\ lastOp = NoOp
    /\ handoff = NoHandoff
    /\ budget = NoBudget
    /\ mux = NoMux
    /\ threads = [t \in Threads |-> NoThread]
    /\ hist = NoHist
    /\ PluginIdle /\ PureIdle /\ PolicyIdle
    /\ TakeIdle /\ CkIdle /\ AllocIdle

\* entry of a mutating call up to sc.mux.Lock()
LockStep(t) ==
    /\ threads[t].pc = "idle"
    /\ CanAcquire(MutatorLock, mux)
    /\ \E call \in LockCalls :
        /\ call.op \notin ReadCalls
        /\ threads' = [threads EXCEPT ![t].pc = "locked", ![t].call = call]
    /\ mux' = IF UnlockDeferred THEN Acquire(MutatorLock, t, mux) ELSE mux
    /\ hist' = [hist EXCEPT !.acquired = Append(@, t)]
    /\ UNCHANGED <<takeVars, storeVars, ck, callers, pluginVars, pureVars, policyVars>>

\* sc.cache.SetCPUSet(...) and the like
ApplyStep(t) ==
    /\ threads[t].pc = "locked"
    /\ cache' = ApplyCall(threads[t].call, cache)
    /\ threads' = [threads EXCEPT ![t].pc = "applied"]
    /\ hist' = [hist EXCEPT !.applied =
                    Append(@, [t |-> t, call |-> threads[t].call, mem |-> cache'])]
    /\ UNCHANGED <<takeVars, disk, scState, scPolicy, lastOp, handoff, budget,
                   ck, callers, mux, pluginVars, pureVars, policyVars>>

\* sc.storeState(); its error is logged
WriteStep(t) ==
    /\ threads[t].pc = "applied"
    /\ \E writeOK \in BOOLEAN :
        LET stored == storeState(scPolicy, cache, disk, writeOK)
        IN  /\ disk' = stored.disk
            /\ threads' = [threads EXCEPT ![t].pc = "stored", ![t].err = stored.err]
            /\ hist' = [hist EXCEPT !.written =
                            Append(@, [t |-> t, err |-> stored.err, mem |-> cache,
                                       file |-> stored.disk])]
    /\ UNCHANGED <<takeVars, scState, scPolicy, cache, lastOp, handoff, budget,
                   ck, callers, mux, pluginVars, pureVars, policyVars>>

\* return of a mutating call: the deferred sc.mux.Unlock() runs
UnlockStep(t) ==
    /\ threads[t].pc = "stored"
    /\ mux' = Release(t, mux)
    /\ threads' = [threads EXCEPT ![t].pc = "done"]
    /\ UNCHANGED <<takeVars, storeVars, ck, callers, hist, pluginVars, pureVars, policyVars>>

\* entry of a getter up to sc.mux.RLock()
RLockStep(t) ==
    /\ threads[t].pc = "idle"
    /\ CanAcquire(GetterLock, mux)
    /\ \E call \in LockCalls :
        /\ call.op \in ReadCalls
        /\ threads' = [threads EXCEPT ![t].pc = "rlocked", ![t].call = call]
    /\ mux' = Acquire(GetterLock, t, mux)
    /\ UNCHANGED <<takeVars, storeVars, ck, callers, hist, pluginVars, pureVars, policyVars>>

\* return sc.cache.Get...()
ReadStep(t) ==
    /\ threads[t].pc = "rlocked"
    /\ threads' = [threads EXCEPT ![t].pc = "read",
                                  ![t].seen = ReadCall(threads[t].call, cache)]
    /\ UNCHANGED <<takeVars, storeVars, ck, callers, mux, hist, pluginVars, pureVars, policyVars>>

\* return of a getter: the deferred sc.mux.RUnlock() runs
RUnlockStep(t) ==
    /\ threads[t].pc = "read"
    /\ mux' = Release(t, mux)
    /\ threads' = [threads EXCEPT ![t].pc = "done"]
    /\ UNCHANGED <<takeVars, storeVars, ck, callers, hist, pluginVars, pureVars, policyVars>>

LockNext ==
    \E t \in Threads :
        \/ LockStep(t)
        \/ ApplyStep(t)
        \/ WriteStep(t)
        \/ UnlockStep(t)
        \/ RLockStep(t)
        \/ ReadStep(t)
        \/ RUnlockStep(t)

SpecLock == LockInit /\ [][LockNext]_vars

(***************************************************************************)
(* SpecStub: the policy plugin Stub (stub.go) driven by one goroutine that *)
(* calls Start and Stop in any order.  The environment decides whether     *)
(* removing the socket file, listening on it and dialling it succeed.      *)
(***************************************************************************)
MaxStubCalls == 4

ErrRemove == "remove: permission denied"

ErrListen == "listen: address unavailable"

ErrDial == "dial: connection refused"

NoStubCall == [op |-> "none", outcome |-> "returned", err |-> "", foundServer |-> FALSE]

\* NewPolicyPluginStub: no server, an open stop channel, an empty wait group.
NewPolicyPluginStub ==
    [server |-> "nil",       \* m.server: "nil" or "set"
     serving |-> 0,          \* goroutines inside m.server.Serve (m.wg's counter)
     stopClosed |-> FALSE,   \* m.stop has been closed
     closes |-> 0,           \* executions of close(m.stop)
     socketFile |-> FALSE,   \* the socket path exists
     mergeFunc |-> "default",\* m.mergeFunc: defaultMergeFunc or one set by the user
     rpc |-> "",             \* the error of the last MergeHints RPC served
     calls |-> 0,
     last |-> NoStubCall]

\* cleanup: os.Remove of the socket; a missing file is not an error.
cleanup(m, removeOK) ==
    IF ~m.socketFile THEN [err |-> "", socketFile |-> FALSE]
    ELSE IF removeOK THEN [err |-> "", socketFile |-> FALSE]
    ELSE [err |-> ErrRemove, socketFile |-> TRUE]

\* Start: cleanup, listen, register and serve in a goroutine, then poll the
\* socket; nothing looks at m.stop or at a server already set.
Start(m, removeOK, listenOK, dialOK) ==
    LET cleaned == cleanup(m, removeOK)
    IN  IF cleaned.err # ""
        THEN [m EXCEPT !.last = [op |-> "Start", outcome |-> "returned",
                                 err |-> cleaned.err, foundServer |-> m.server # "nil"]]
        ELSE IF ~listenOK
        THEN [m EXCEPT !.socketFile = FALSE,
                       !.last = [op |-> "Start", outcome |-> "returned",
                                 err |-> ErrListen, foundServer |-> m.server # "nil"]]
        ELSE [m EXCEPT !.socketFile = TRUE,
                       !.server = "set",
                       !.serving = @ + 1,
                       !.last = [op |-> "Start", outcome |-> "returned",
                                 err |-> IF dialOK THEN "" ELSE ErrDial,
                                 foundServer |-> m.server # "nil"]]

\* Stop: nothing to do without a server; else stop it, wait for the serving
\* goroutines, forget the server, close m.stop and clean up.  m.wg.Wait()
\* never returns while a goroutine of an earlier server is still serving;
\* closing a closed channel panics.
Stop(m, removeOK) ==
    IF m.server = "nil"
    THEN [m EXCEPT !.last = [op |-> "Stop", outcome |-> "returned", err |-> "",
                             foundServer |-> FALSE]]
    ELSE IF m.serving > 1
    THEN [m EXCEPT !.serving = @ - 1,
                   !.last = [op |-> "Stop", outcome |-> "blocked", err |-> "",
                             foundServer |-> TRUE]]
    ELSE IF m.stopClosed
    THEN [m EXCEPT !.serving = 0,
                   !.server = "nil",
                   !.closes = @ + 1,
                   !.last = [op |-> "Stop", outcome |-> "panicked", err |-> "",
                             foundServer |-> TRUE]]
    ELSE LET cleaned == cleanup(m, removeOK)
         IN  [m EXCEPT !.serving = 0,
                       !.server = "nil",
                       !.stopClosed = TRUE,
                       !.closes = @ + 1,
                       !.socketFile = cleaned.socketFile,
                       !.last = [op |-> "Stop", outcome |-> "returned",
                                 err |-> cleaned.err, foundServer |-> TRUE]]

ErrNotImplemented == "not implemented"

\* SetMergeFunc
SetMergeFunc(m, f) == [m EXCEPT !.mergeFunc = f]

\* MergeHints: the answer of m.mergeFunc; defaultMergeFunc returns an error.
MergeHints(m) ==
    [m EXCEPT !.rpc = IF m.mergeFunc = "default" THEN ErrNotImplemented ELSE "served"]

StubInit ==
    /\ stub = NewPolicyPluginStub
    /\ TakeIdle /\ StoreIdle /\ CkIdle /\ AllocIdle /\ LockIdle /\ PureIdle /\ PolicyIdle

\* The goroutine goes on only after its last call returned.
StubCanCall ==
    /\ stub.last.outcome = "returned"
    /\ stub.calls < MaxStubCalls

StubStart ==
    /\ StubCanCall
    /\ \E removeOK \in BOOLEAN, listenOK \in BOOLEAN, dialOK \in BOOLEAN :
        stub' = [Start(stub, removeOK, listenOK, dialOK) EXCEPT !.calls = @ + 1]
    /\ UNCHANGED <<takeVars, storeVars, ck, callers, lockVars, pureVars, policyVars>>

StubStop ==
    /\ StubCanCall
    /\ \E removeOK \in BOOLEAN :
        stub' = [Stop(stub, removeOK) EXCEPT !.calls = @ + 1]
    /\ UNCHANGED <<takeVars, storeVars, ck, callers, lockVars, pureVars, policyVars>>

StubSetMergeFunc ==
    /\ StubCanCall
    /\ stub.mergeFunc = "default"
    /\ stub' = [SetMergeFunc(stub, "custom") EXCEPT !.calls = @ + 1]
    /\ UNCHANGED <<takeVars, storeVars, ck, callers, lockVars, pureVars, policyVars>>

\* A MergeHints RPC reaches a serving server.
StubMergeHints ==
    /\ stub.serving > 0
    /\ stub.rpc = ""
    /\ stub' = MergeHints(stub)
    /\ UNCHANGED <<takeVars, storeVars, ck, callers, lockVars, pureVars, policyVars>>

StubNext == StubStart \/ StubStop \/ StubSetMergeFunc \/ StubMergeHints

SpecStub == StubInit /\ [][StubNext]_vars

(***************************************************************************)
(* SpecSort: sortBySize on a list of distinct ids (as UnsortedList() of a  *)
(* set returns them, in any order) and any getCPUCount.                    *)
(***************************************************************************)
SortIds == 0..3

SortCounts == 0..2

\* Every list of distinct ids.
RECURSIVE ListsOf(_)
ListsOf(S) ==
    {<<>>} \cup UNION {{<<x>> \o l : l \in ListsOf(S \ {x})} : x \in S}

SortInit ==
    /\ pure \in {[fn |-> "sortBySize", stage |-> "input", ids |-> l, count |-> f,
                  out |-> <<>>] : l \in ListsOf(SortIds), f \in [SortIds -> SortCounts]}
    /\ TakeIdle /\ StoreIdle /\ CkIdle /\ AllocIdle /\ LockIdle /\ PluginIdle /\ PolicyIdle

SortStep ==
    /\ pure.stage = "input"
    /\ pure' = [pure EXCEPT !.stage = "sorted",
                            !.out = sortBySize(pure.ids, pure.count)]
    /\ UNCHANGED <<takeVars, storeVars, ck, callers, lockVars, pluginVars, policyVars>>

SortNext == SortStep

SpecSort == SortInit /\ [][SortNext]_vars

(***************************************************************************)
(* The plugin policy (policy_plugin.go), its endpoint, and the plugin      *)
(* registration server with its clients (plugin/v1alpha1).  One record     *)
(* holds the policy's endpoint, the server's client registry and gRPC      *)
(* server, and every client object created so far.                         *)
(***************************************************************************)
NoClient == 0

UniversalResource == "*"

SupportedVersions == {"v1alpha1"}

errFailedToDialPolicyPlugin == "failed to dial policy plugin:"

errUnsupportedVersion == "requested API version is not supported by kubelet"

ErrEndpointStopped == "endpoint stopped"

ErrDuplicateResource == "inconsistent response, duplicate resource"

ErrMissingUniversalHint == "incomplete response, missing universal hint"

ErrBitMask == "bit number out of range"

ErrRPC == "rpc error"

\* ---- endpointImpl
newEndpointImpl(objs, c) == [name |-> objs[c].name, stopped |-> FALSE, api |-> c]

newStoppedEndpointImpl(name) == [name |-> name, stopped |-> TRUE, api |-> NoClient]

getName(e) == e.name

isStopped(e) == e.stopped

\* ---- packTopology / unpackTopology.  A *TopologyInfo is NilTopology or a
\* record with its Nodes; reading a field through the nil pointer panics.
NilTopology == [isNil |-> TRUE, Nodes |-> <<>>]

TopologyInfo(ids) == [isNil |-> FALSE, Nodes |-> [i \in 1..Len(ids) |-> [ID |-> ids[i]]]]

unpackTopology(topology) ==
    IF topology.isNil THEN [panic |-> TRUE, bits |-> <<>>]
    ELSE [panic |-> FALSE,
          bits |-> [i \in 1..Len(topology.Nodes) |-> topology.Nodes[i].ID]]

\* The TopologyInfo is built, and nil is returned.
packTopology(bits) ==
    LET info == TopologyInfo(bits)
    IN  NilTopology

\* ---- validateMergedHints, collectHints, endpointImpl.merge
RECURSIVE validateLoop(_, _, _)
validateLoop(hints, haveUniversalHint, res) ==
    IF hints = <<>>
    THEN IF ~haveUniversalHint THEN ErrMissingUniversalHint ELSE ""
    ELSE IF Head(hints).Resource = UniversalResource
         THEN validateLoop(Tail(hints), TRUE, res)
         ELSE IF Head(hints).Resource \in res THEN ErrDuplicateResource
         ELSE validateLoop(Tail(hints), haveUniversalHint,
                           res \cup {Head(hints).Resource})

\* Mutant: a response is complete without a universal hint.
validateMergedHintsNoUniversal(resp) ==
    LET e == validateLoop(resp.Hints, FALSE, {})
    IN  IF e = ErrMissingUniversalHint THEN "" ELSE e

validateMergedHints(resp) == validateLoop(resp.Hints, FALSE, {})

\* bitmask.NewBitMask: bits are 0..63.
NewBitMask(bits) ==
    IF \E i \in 1..Len(bits) : bits[i] < 0 \/ bits[i] >= 64
    THEN [err |-> ErrBitMask, mask |-> {}]
    ELSE [err |-> "", mask |-> {bits[i] : i \in 1..Len(bits)}]

NilHints == [isNil |-> TRUE, m |-> <<>>]

RECURSIVE collectLoop(_, _)
collectLoop(hints, ret) ==
    IF hints = <<>> THEN [hints |-> [isNil |-> FALSE, m |-> ret], err |-> ""]
    ELSE LET aff == NewBitMask(unpackTopology(Head(hints).Topology).bits)
         IN  IF aff.err # "" THEN [hints |-> NilHints, err |-> aff.err]
             ELSE collectLoop(Tail(hints),
                              MapPut(ret, Head(hints).Resource,
                                     [NUMANodeAffinity |-> aff.mask,
                                      Preferred |-> Head(hints).Preferred]))

collectHints(hints) == collectLoop(hints, <<>>)

\* Mutant: a stopped endpoint issues the RPC all the same.
mergeWhenStopped(e, resp) ==
    LET failed(err) == [hints |-> NilHints, err |-> err, rpc |-> TRUE]
    IN  IF resp.err # "" THEN failed(resp.err)
        ELSE IF validateMergedHints(resp) # "" THEN failed(validateMergedHints(resp))
        ELSE [hints |-> collectHints(resp.Hints).hints,
              err |-> collectHints(resp.Hints).err, rpc |-> TRUE]

\* endpointImpl.merge: resp is what the plugin answers if it is asked.
merge(e, resp) ==
    LET failed(err) == [hints |-> NilHints, err |-> err, rpc |-> TRUE]
    IN  IF isStopped(e)
        THEN [hints |-> NilHints, err |-> ErrEndpointStopped, rpc |-> FALSE]
        ELSE IF resp.err # "" THEN failed(resp.err)
        ELSE IF validateMergedHints(resp) # "" THEN failed(validateMergedHints(resp))
        ELSE [hints |-> collectHints(resp.Hints).hints,
              err |-> collectHints(resp.Hints).err, rpc |-> TRUE]

\* ---- pluginPolicy and the server NewPluginPolicy creates.  Beside the
\* fields of the code the record notes the last plugin event seen by the
\* policy, the number of operations made, and the last operation with what
\* it returned and the state it started from.
NoPlugOp ==
    [op |-> "none", name |-> "", err |-> "", outcome |-> "returned",
     admit |-> FALSE, rpc |-> FALSE, hints |-> NilHints, ep |-> <<>>, resp |-> <<>>,
     before |-> <<>>]

NewPluginPolicy ==
    [ep |-> newStoppedEndpointImpl("none"),
     clients |-> <<>>, objs |-> <<>>, grpc |-> FALSE, serving |-> 0,
     blocked |-> FALSE,
     merging |-> <<>>,
     lastConnected |-> "none", lastClient |-> NoClient, lastEvent |-> "none",
     ops |-> 0, last |-> NoPlugOp]

PluginConnected(s, name, c) ==
    [s EXCEPT !.ep = newEndpointImpl(s.objs, c),
              !.lastConnected = name, !.lastClient = c, !.lastEvent = "connected"]

PluginDisconnected(s, resourceName) ==
    [s EXCEPT !.ep = newStoppedEndpointImpl(getName(s.ep)),
              !.lastEvent = "disconnected"]

\* ---- client
NewPluginClient(s, name) ==
    [s EXCEPT !.objs = Append(@, [name |-> name, grpc |-> FALSE, disconnects |-> 0])]

Connect(s, c, dialOK) ==
    IF ~dialOK THEN [s |-> s, err |-> errFailedToDialPolicyPlugin]
    ELSE [s |-> PluginConnected([s EXCEPT !.objs[c].grpc = TRUE], s.objs[c].name, c),
          err |-> ""]

Disconnect(s, c) ==
    PluginDisconnected([s EXCEPT !.objs[c].grpc = FALSE,
                                 !.objs[c].disconnects = @ + 1],
                       s.objs[c].name)

\* ---- server: the client registry
registerClient(s, name, c) == [s EXCEPT !.clients = MapPut(@, name, c)]

deregisterClient(s, name) == [s EXCEPT !.clients = MapDelete(@, name)]

getClient(s, name) == IF name \in DOMAIN s.clients THEN s.clients[name] ELSE NoClient

connectClient(s, name, dialOK) ==
    LET c == Len(s.objs) + 1
        registered == registerClient(NewPluginClient(s, name), name, c)
        connected == Connect(registered, c, dialOK)
    IN  IF connected.err # ""
        THEN [s |-> deregisterClient(connected.s, name), err |-> connected.err]
        ELSE [s |-> connected.s, err |-> ""]

disconnectClient(s, name, c) == Disconnect(deregisterClient(s, name), c)

RegisterPlugin(s, pluginName, dialOK) == connectClient(s, pluginName, dialOK)

DeRegisterPlugin(s, pluginName) ==
    IF getClient(s, pluginName) # NoClient
    THEN disconnectClient(s, pluginName, getClient(s, pluginName))
    ELSE s

isVersionCompatibleWithPlugin(versions) == versions \cap SupportedVersions # {}

serverRegister(s, version, name, dialOK) ==
    IF ~isVersionCompatibleWithPlugin({version})
    THEN [s |-> s, err |-> errUnsupportedVersion]
    ELSE connectClient(s, name, dialOK)

\* visitClients with Stop's visitor: every registered client is
\* disconnected; the order of the map iteration makes no difference to the
\* state it ends in.
RECURSIVE visitClients(_, _)
visitClients(s, names) ==
    IF names = {} THEN s
    ELSE LET r == CHOOSE x \in names : TRUE
         IN  visitClients(disconnectClient(s, r, s.clients[r]), names \ {r})

ErrCleanupPluginDirectory == "failed to cleanup the policy plugin directory"

ErrServerListen == "failed to listen to socket"

serverStart(s, cleanupOK, listenOK) ==
    IF ~cleanupOK THEN [s |-> s, err |-> ErrCleanupPluginDirectory]
    ELSE IF ~listenOK THEN [s |-> s, err |-> ErrServerListen]
    ELSE [s |-> [s EXCEPT !.serving = @ + 1, !.grpc = TRUE], err |-> ""]

\* server.Stop: grpc.Stop ends the Serve call of the server s.grpc points
\* at; wg.Wait returns when every Serve goroutine started has ended.
serverStop(s) ==
    LET visited == visitClients(s, DOMAIN s.clients)
    IN  IF ~visited.grpc THEN [s |-> visited, outcome |-> "returned"]
        ELSE IF visited.serving > 1
        THEN [s |-> [visited EXCEPT !.serving = @ - 1, !.blocked = TRUE],
              outcome |-> "blocked"]
        ELSE [s |-> [visited EXCEPT !.serving = 0, !.grpc = FALSE],
              outcome |-> "returned"]

\* pluginPolicy.Merge, after the endpoint was read under the mutex.
Merge(endpoint, resp) ==
    LET r == merge(endpoint, resp)
    IN  [hints |-> r.hints, admit |-> r.err = "", err |-> r.err, rpc |-> r.rpc]

(***************************************************************************)
(* SpecPlugin: plugins register and deregister (through the plugin         *)
(* watcher or the Register RPC), the server is started and stopped, and     *)
(* containers are admitted through Merge, whose RPC the plugin answers.     *)
(***************************************************************************)
MaxPluginOps == 4

PluginNames == {"A", "B"}

APIVersions == {"v1alpha1", "v1beta1"}

PluginHint(resource, ids) ==
    [Resource |-> resource, Preferred |-> TRUE, Topology |-> TopologyInfo(ids)]

PluginHints ==
    {PluginHint(r, ids) : r \in {UniversalResource, "cpu"}, ids \in {<<0>>, <<64>>}}
    \cup {PluginHint("memory", <<0, 1>>)}

\* What a plugin may answer: an RPC error, up to two hints of any kind, or
\* three hints with a valid affinity.
Responses ==
    {[err |-> ErrRPC, Hints |-> <<>>]}
    \cup {[err |-> "", Hints |-> h] :
            h \in UNION {[1..k -> PluginHints] : k \in 0..2}}
    \cup {[err |-> "", Hints |-> h] :
            h \in [1..3 -> {x \in PluginHints : x.Topology = TopologyInfo(<<0>>)}]}

NoResponse == [err |-> "", Hints |-> <<>>]

PlugInit ==
    /\ plug = NewPluginPolicy
    /\ TakeIdle /\ StoreIdle /\ CkIdle /\ AllocIdle /\ LockIdle /\ PluginIdle /\ PureIdle

PlugOthersUnchanged ==
    UNCHANGED <<takeVars, storeVars, ck, callers, lockVars, pluginVars, pureVars>>

\* The state a server operation starts from, as the last operation notes it.
PlugBefore(s) == [clients |-> s.clients, objs |-> s.objs, grpc |-> s.grpc, ep |-> s.ep]

PlugDone(s, op, name, err, outcome) ==
    [s EXCEPT !.ops = plug.ops + 1,
              !.last = [NoPlugOp EXCEPT !.op = op, !.name = name, !.err = err,
                                        !.outcome = outcome,
                                        !.before = PlugBefore(plug)]]

\* The server's mutex is free (no Stop is stuck holding it).
PlugCanCall == plug.ops < MaxPluginOps /\ ~plug.blocked

PlugRegisterPlugin ==
    /\ PlugCanCall
    /\ \E name \in PluginNames, dialOK \in BOOLEAN :
        LET r == RegisterPlugin(plug, name, dialOK)
        IN  plug' = PlugDone(r.s, "RegisterPlugin", name, r.err, "returned")
    /\ PlugOthersUnchanged

\* The Register RPC reaches a server that is serving.
PlugRegister ==
    /\ PlugCanCall
    /\ plug.serving > 0
    /\ \E version \in APIVersions, name \in PluginNames, dialOK \in BOOLEAN :
        LET r == serverRegister(plug, version, name, dialOK)
        IN  plug' = PlugDone(r.s, "Register", name, r.err, "returned")
    /\ PlugOthersUnchanged

PlugDeRegisterPlugin ==
    /\ PlugCanCall
    /\ \E name \in PluginNames :
        plug' = PlugDone(DeRegisterPlugin(plug, name), "DeRegisterPlugin", name, "",
                         "returned")
    /\ PlugOthersUnchanged

PlugStart ==
    /\ PlugCanCall
    /\ \E cleanupOK \in BOOLEAN, listenOK \in BOOLEAN :
        LET r == serverStart(plug, cleanupOK, listenOK)
        IN  plug' = PlugDone(r.s, "Start", "", r.err, "returned")
    /\ PlugOthersUnchanged

PlugStop ==
    /\ PlugCanCall
    /\ LET r == serverStop(plug)
       IN  plug' = PlugDone(r.s, "Stop", "", "", r.outcome)
    /\ PlugOthersUnchanged

\* Merge, first half: the endpoint is read under the policy's mutex.
PlugMergeRead ==
    /\ plug.ops < MaxPluginOps
    /\ plug.merging = <<>>
    /\ plug' = [plug EXCEPT !.merging = <<plug.ep>>, !.ops = @ + 1]
    /\ PlugOthersUnchanged

\* Merge, second half: endpoint.merge on the endpoint that was read.
PlugMergeCall ==
    /\ plug.merging # <<>>
    /\ \E resp \in IF isStopped(plug.merging[1]) THEN {NoResponse} ELSE Responses :
        LET r == Merge(plug.merging[1], resp)
        IN  plug' = [plug EXCEPT !.merging = <<>>,
                                 !.last = [NoPlugOp EXCEPT
                                     !.op = "Merge", !.name = getName(plug.merging[1]),
                                     !.err = r.err, !.admit = r.admit, !.rpc = r.rpc,
                                     !.hints = r.hints, !.ep = plug.merging[1],
                                     !.resp = resp, !.before = PlugBefore(plug)]]
    /\ PlugOthersUnchanged

PlugNext ==
    \/ PlugRegisterPlugin
    \/ PlugRegister
    \/ PlugDeRegisterPlugin
    \/ PlugStart
    \/ PlugStop
    \/ PlugMergeRead
    \/ PlugMergeCall

SpecPlugin == PlugInit /\ [][PlugNext]_vars

(***************************************************************************)
(* Claims about the accumulator                                            *)
(***************************************************************************)
\* C1: for every topology, available set A and count n with 0 <= n <= |A|,
\* the call returns no error and a CPU set of exactly n CPUs, all of them in A
\* (the empty set when n = 0).
C1_TakeExactlyNFromAvailable ==
    (lastCall.made /\ lastCall.n <= Cardinality(lastCall.avail)) =>
        /\ lastCall.out.err = NoError
        /\ Cardinality(lastCall.out.cpus) = lastCall.n
        /\ lastCall.out.cpus \subseteq lastCall.avail
        /\ (lastCall.n = 0 => lastCall.out.cpus = {})

\* A satisfiable request that claimed a whole uncore cache and more CPUs besides,
\* from a partly consumed machine.
C1_Witness ==
    /\ lastCall.made
    /\ topo = topoDualUncoreCacheHT
    /\ lastCall.avail = {0, 1, 2, 4, 5, 7}
    /\ lastCall.n = 5
    /\ CPUsInUncoreCaches(topo, AllCPUs(topo), 0) \subseteq lastCall.out.cpus
    /\ Cardinality(lastCall.out.cpus) = 5

\* C2: a request with n > |A| fails with 'not enough cpus available to satisfy
\* request: requested=n, available=|A|' and the empty set, leaves the available
\* set and the topology as they were, and the identical call repeated yields
\* the same error again.
C2_TooLargeRequestFailsCleanly ==
    /\ [](  (lastCall.made /\ lastCall.n > Cardinality(lastCall.avail)) =>
              /\ lastCall.out = Outcome({}, NotEnoughCPUs(lastCall.n,
                                            Cardinality(lastCall.avail)))
              /\ cpuSet = lastCall.avail
              /\ (retryCall.made => retryCall.out = lastCall.out) )
    /\ [][ (lastCall'.made /\ lastCall'.n > Cardinality(lastCall'.avail)) =>
              (topo' = topo /\ cpuSet' = cpuSet) ]_vars

\* A failed request, repeated under the other iteration order.
C2_Witness ==
    /\ lastCall.made
    /\ lastCall.n = 5
    /\ lastCall.avail = {0, 2, 4, 6}
    /\ lastCall.out.err = NotEnoughCPUs(5, 4)
    /\ retryCall.made
    /\ retryCall.ord # lastCall.ord


(***************************************************************************)
(* Claims about the checkpoint-backed store                                *)
(***************************************************************************)
\* What the file records, read field by field.
DecodedDefault(json) == ParseCPUSet(json.globalEntries).set

DecodedAssignments(json) ==
    IF ~json.hasContainerEntries THEN EmptyMap
    ELSE [p \in DOMAIN json.containerEntries |->
             [c \in DOMAIN json.containerEntries[p] |->
                 ParseCPUSet(json.containerEntries[p][c]).set]]

\* The checksum in the file is the hash of its content neither as a V3 nor as
\* a legacy checkpoint.
ChecksumMismatch(json) ==
    /\ json.checksum #
           Hash(DumpV3(UnmarshalCheckpointV3(newCPUManagerCheckpointV3, json)))
    /\ json.checksum #
           Hash(DumpV2(UnmarshalCheckpointV2(newCPUManagerCheckpointV2, json),
                       "CPUManagerCheckpoint"))

\* C3: after every mutating call (SetCPUSet, SetDefaultCPUSet,
\* SetCPUAssignments, Delete, ClearState) whose checkpoint write succeeded, the
\* file carries the configured policy name and decodes to exactly the default
\* set and the per-(pod, container) sets held in memory.
C3_WriteThrough ==
    (lastOp.op \in MutatingCalls /\ lastOp.err = "") =>
        /\ disk # NoFile
        /\ disk[1].policyName = scPolicy
        /\ disk[1].hasGlobal
        /\ DecodedDefault(disk[1]) = cache.defaultCPUSet
        /\ DecodedAssignments(disk[1]) = cache.assignments

\* A second successful call, on a pod with two containers and a default set
\* that prints as two tokens.
C3_Witness ==
    /\ lastOp.op = "SetDefaultCPUSet"
    /\ lastOp.err = ""
    /\ budget.calls = 2
    /\ cache.defaultCPUSet = {0, 3}
    /\ Cardinality(Keys2(cache.assignments)) = 2
    /\ disk # NoFile

\* C4 (as stated): after mutating calls the last of which was written, a new
\* store over the same file and policy name starts and holds exactly the
\* default set and assignments the previous store held.
C4_RestartRestoresState ==
    (lastOp.op = "NewCheckpointState" /\ handoff.valid /\ handoff.policy = scPolicy) =>
        /\ scState = "ready"
        /\ cache = handoff.cache

\* C6 (as stated): a file whose checksum does not match its content is never
\* loaded: NewCheckpointState fails and the cache stays empty.
C6_MismatchNeverLoaded ==
    (lastOp.op = "NewCheckpointState" /\ lastOp.found /\ ChecksumMismatch(disk[1])) =>
        /\ scState = "failed"
        /\ lastOp.err # ""
        /\ cache = NewMemoryState

\* C6 (amended): a file whose checksum is not zero and does not match its
\* content is never loaded, neither as V3 nor through the V2 fallback; a zero
\* checksum is the old file backend's and is accepted by the V2 fallback.
C6_NonZeroMismatchNeverLoaded ==
    (/\ lastOp.op = "NewCheckpointState" /\ lastOp.found
     /\ ChecksumMismatch(disk[1]) /\ disk[1].checksum # ZeroChecksum) =>
        /\ scState = "failed"
        /\ lastOp.err = ErrCorruptCheckpoint
        /\ cache = NewMemoryState

\* A file the store wrote, with one container cpuset changed afterwards, refused.
C6_Witness ==
    /\ lastOp.op = "NewCheckpointState"
    /\ lastOp.found
    /\ budget.tampers = 1
    /\ disk[1].hasContainerEntries
    /\ disk[1].containerEntries # disk[1].entries
    /\ disk[1].checksum # ZeroChecksum
    /\ scState = "failed"
    /\ lastOp.err = ErrCorruptCheckpoint

\* C8: when the file loads and records a policy name other than the configured
\* one, NewCheckpointState fails with the policy-mismatch error, the cache is
\* not populated and the file is not rewritten.
C8_PolicyMismatchRejected ==
    [][ (/\ lastOp'.op = "NewCheckpointState" /\ lastOp.op # "NewCheckpointState"
         /\ loadState(disk).err = ""
         /\ loadState(disk).cp.PolicyName # scPolicy')
        => (/\ scState' = "failed"
            /\ lastOp'.err = ErrPolicyMismatch
            /\ cache' = NewMemoryState
            /\ disk' = disk) ]_vars

\* A file written under "static" with assignments, met by a store configured
\* for "none".
C8_Witness ==
    /\ lastOp.op = "NewCheckpointState"
    /\ lastOp.err = ErrPolicyMismatch
    /\ scState = "failed"
    /\ scPolicy = "none"
    /\ disk # NoFile
    /\ disk[1].policyName = "static"
    /\ disk[1].hasContainerEntries
    /\ cache = NewMemoryState

\* C9 (as stated): with no file, NewCheckpointState succeeds with an empty
\* state and has written a file with the policy name and that empty state.
C9_FreshStartAlwaysSucceeds ==
    (lastOp.op = "NewCheckpointState" /\ ~lastOp.found) =>
        /\ scState = "ready"
        /\ cache = NewMemoryState
        /\ disk # NoFile

\* C9 (amended): with no file, NewCheckpointState writes a file with the policy
\* name and the empty state; it succeeds with an empty state if that write
\* succeeds, and fails with the write error, leaving no file, if it does not.
C9_FreshStartWritesOrFails ==
    (lastOp.op = "NewCheckpointState" /\ ~lastOp.found) =>
        /\ cache = NewMemoryState
        /\ \/ /\ scState = "ready"
              /\ lastOp.err = ""
              /\ disk # NoFile
              /\ disk[1].policyName = scPolicy
              /\ DecodedDefault(disk[1]) = {}
              /\ DecodedAssignments(disk[1]) = EmptyMap
           \/ /\ scState = "failed"
              /\ lastOp.err = ErrWriteFailed
              /\ disk = NoFile

\* A first start under "static" that wrote the empty checkpoint.
C9_Witness ==
    /\ lastOp.op = "NewCheckpointState"
    /\ ~lastOp.found
    /\ scState = "ready"
    /\ scPolicy = "static"
    /\ disk # NoFile
    /\ disk[1].policyName = "static"
    /\ ~disk[1].hasContainerEntries

\* Some CPU is held by two different (pod, container) entries.
DoublyAssigned(assignments) ==
    \E k1 \in Keys2(assignments), k2 \in Keys2(assignments) :
        /\ k1 # k2
        /\ assignments[k1[1]][k1[2]] \cap assignments[k2[1]][k2[2]] # {}

\* C5 (as stated): while callers run the allocation flow concurrently, no CPU
\* is ever assigned to two different (pod, container) entries of the store.
C5_NoDoubleAssignment == ~DoublyAssigned(cache.assignments)

C10_MigrationKeepsEntries ==
    (ck.stage = "migrated" /\ ck.v3 = newCPUManagerCheckpointV3) =>
        /\ Keys2(ck.out.ContainerEntries) = Keys2(ck.v2.Entries.m)
        /\ \A k \in Keys2(ck.v2.Entries.m) :
              ck.out.ContainerEntries[k[1]][k[2]] = ck.v2.Entries.m[k[1]][k[2]]

\* A pod with two containers, migrated into a fresh object.
C10_Witness ==
    /\ ck.stage = "migrated"
    /\ ck.v3 = newCPUManagerCheckpointV3
    /\ Keys2(ck.v2.Entries.m) = {<<"pod1", "c1">>, <<"pod1", "c2">>}
    /\ ck.out.ContainerEntries["pod1"]["c2"] = <<<<1, 2>>>>

(***************************************************************************)
(* Claims about failed writes and concurrent calls                         *)
(***************************************************************************)
\* The memory states a mutating call can leave, over all its arguments.
MutationOutcomes(op, before) ==
    CASE op = "SetCPUSet" ->
            {cacheSetCPUSet(before, p, c, cset) :
                p \in PodUIDs, c \in ContainerNames, cset \in ContainerSets}
      [] op = "SetDefaultCPUSet" ->
            {cacheSetDefaultCPUSet(before, cset) : cset \in DefaultSets}
      [] op = "SetCPUAssignments" ->
            {cacheSetCPUAssignments(before, a) : a \in AssignmentInputs}
      [] op = "Delete" ->
            {cacheDelete(before, p, c) : p \in PodUIDs, c \in ContainerNames}
      [] op = "ClearState" -> {cacheClearState(before)}
      [] OTHER -> {}

\* C11: when the checkpoint write of a mutating call fails, the call still
\* returns normally (the store stays usable), the cache holds the mutated state
\* and the reads return it, and the file is what it was before the call.
C11_FailedWriteKeepsMutation ==
    [][ (scState = "ready" /\ lastOp'.op \in MutatingCalls /\ lastOp'.err # "")
        => (/\ lastOp'.err = ErrWriteFailed
            /\ scState' = "ready"
            /\ cache' \in MutationOutcomes(lastOp'.op, cache)
            /\ GetDefaultCPUSet(cache') = cache'.defaultCPUSet
            /\ GetCPUAssignments(cache') = cache'.assignments
            /\ disk' = disk) ]_vars

\* A SetCPUSet whose write failed: the assignment is in memory, the file still
\* records none.
C11_Witness ==
    /\ lastOp.op = "SetCPUSet"
    /\ lastOp.err = ErrWriteFailed
    /\ scState = "ready"
    /\ GetCPUSet(cache, "pod1", "c2").ok
    /\ disk # NoFile
    /\ DecodedAssignments(disk[1]) = EmptyMap

\* The file decodes to the memory state mem under the store's policy name.
FileHolds(file, mem) ==
    /\ file # NoFile
    /\ file[1].policyName = scPolicy
    /\ file[1].hasGlobal
    /\ DecodedDefault(file[1]) = mem.defaultCPUSet
    /\ DecodedAssignments(file[1]) = mem.assignments

InWriteSection == {t \in DOMAIN threads : threads[t].pc = "applied"}

InRead == {t \in DOMAIN threads : threads[t].pc \in {"rlocked", "read"}}

AllReturned == \A t \in DOMAIN threads : threads[t].pc \in {"idle", "done"}

\* C12: a write is attempted only by the storeState step of a mutating call,
\* once per call, so after a failed write nothing is written until another
\* mutating call runs; the first later call whose write succeeds writes the
\* whole cache, which still carries the mutation of the call whose write
\* failed, and the file then decodes to the cache.
C12_NextGoodWritePersistsAll ==
    /\ [][ (Len(hist'.written) # Len(hist.written) \/ disk' # disk) =>
             \E t \in DOMAIN threads :
                /\ threads[t].pc = "applied"
                /\ threads'[t].pc = "stored"
                /\ threads[t].call.op \in MutatingCalls
                /\ hist'.written = Append(hist.written,
                        [t |-> t, err |-> threads'[t].err, mem |-> cache',
                         file |-> disk'])
                /\ (threads'[t].err # "" => disk' = disk) ]_vars
    /\ [](\A i \in 1..Len(hist.written) :
            /\ \A j \in 1..Len(hist.written) :
                   i # j => hist.written[i].t # hist.written[j].t
            /\ (i > 1 /\ hist.written[i - 1].err # "" /\ hist.written[i].err = "") =>
                   /\ Len(hist.applied) >= i
                   /\ hist.applied[i].mem =
                          ApplyCall(hist.applied[i].call, hist.applied[i - 1].mem)
                   /\ hist.written[i].mem = hist.applied[i].mem
                   /\ FileHolds(hist.written[i].file, hist.applied[i].mem))

\* A SetCPUSet whose write failed, then a SetDefaultCPUSet whose write
\* succeeded: the file records the assignment of the first call.
C12_Witness ==
    /\ Len(hist.written) = 2
    /\ hist.written[1].err = ErrWriteFailed
    /\ hist.written[2].err = ""
    /\ hist.applied[1].call.op = "SetCPUSet"
    /\ hist.applied[2].call.op = "SetDefaultCPUSet"
    /\ disk = hist.written[2].file
    /\ <<"pod1", "c2">> \in Keys2(DecodedAssignments(disk[1]))
    /\ AllReturned

\* C13: at most one mutating call at a time has updated the cache and not yet
\* finished its checkpoint write, and no getter runs meanwhile.
C13_WriteSectionExclusive ==
    /\ Cardinality(InWriteSection) <= 1
    /\ (InWriteSection # {} => InRead = {})
    /\ (InRead # {} => mux.writer = "none")

\* A mutating call is in its section after a getter and another mutating call
\* have run.
C13_Witness ==
    /\ InWriteSection # {}
    /\ \E t \in Threads : threads[t].pc = "done" /\ threads[t].call.op \in ReadCalls
    /\ Len(hist.written) = 1

\* C14: when every write succeeded, the i-th checkpoint written is the cache
\* after the i-th cache update, made by the i-th call to take the lock; once
\* all calls have returned the file decodes to the cache.
C14_WritesFollowLockOrder ==
    (\A i \in 1..Len(hist.written) : hist.written[i].err = "") =>
        /\ Len(hist.written) <= Len(hist.applied)
        /\ Len(hist.applied) <= Len(hist.acquired)
        /\ \A i \in 1..Len(hist.applied) : hist.applied[i].t = hist.acquired[i]
        /\ \A i \in 1..Len(hist.written) :
            /\ hist.written[i].t = hist.applied[i].t
            /\ FileHolds(hist.written[i].file, hist.applied[i].mem)
        /\ (AllReturned /\ threads # <<>> => FileHolds(disk, cache))

\* Three mutating calls ran, all written, and left three different states.
C14_Witness ==
    /\ Len(hist.written) = 3
    /\ \A i \in 1..3 : hist.written[i].err = ""
    /\ AllReturned
    /\ hist.applied[1].mem # hist.applied[2].mem
    /\ hist.applied[2].mem # hist.applied[3].mem
    /\ hist.acquired[1] = "t3"

(***************************************************************************)
(* Claims about the checkpoints written during the allocation flow         *)
(***************************************************************************)
\* The default set and the per-container sets recorded in a checkpoint file
\* are pairwise disjoint and together make up the set all.
FilePartitions(file, all) ==
    LET a == DecodedAssignments(file[1])
        d == DecodedDefault(file[1])
    IN  /\ ~DoublyAssigned(a)
        /\ \A k \in Keys2(a) : a[k[1]][k[2]] \cap d = {}
        /\ d \cup UNION {a[k[1]][k[2]] : k \in Keys2(a)} = all

\* C15 (as stated): every checkpoint written while callers follow the
\* read-pool / pick / commit flow partitions the CPUs of the machine.
C15_CheckpointsPartition ==
    disk # NoFile => FilePartitions(disk, AllCPUs(topo))

(***************************************************************************)
(* Claims about the order in which the accumulator takes CPUs              *)
(***************************************************************************)
\* C16: the same call made twice, with the maps and unsorted id lists iterated
\* in whatever order each time, returns the same CPUs or the same error.
C16_SameInputsSameResult ==
    (lastCall.made /\ retryCall.made) =>
        /\ retryCall.n = lastCall.n
        /\ retryCall.avail = lastCall.avail
        /\ retryCall.out = lastCall.out

\* A successful call for part of a fragmented machine with uncore caches,
\* repeated with the other iteration order.
C16_Witness ==
    /\ lastCall.made
    /\ retryCall.made
    /\ retryCall.ord # lastCall.ord
    /\ topo = topoDualSocketMultiCache
    /\ lastCall.avail = {1, 2, 3, 5, 6, 7}
    /\ lastCall.n = 3
    /\ lastCall.out.err = NoError
    /\ Cardinality(lastCall.out.cpus) = 3

\* The uncore caches of t all of whose CPUs are in avail.
FreeDomains(t, avail) ==
    {u \in {t.CPUDetails[c].UnCoreCacheID : c \in AllCPUs(t)} :
        CPUsInUncoreCaches(t, AllCPUs(t), u) \subseteq avail}

\* The uncore caches of t all of whose CPUs are in cpus.
WholeDomainsIn(t, cpus) == FreeDomains(t, cpus)

\* C17 (as stated): with uncore caches in use, every uncore cache whose k
\* CPUs are all available is wholly in the result of a successful call for
\* n >= k CPUs.
C17_EveryFreeDomainTaken ==
    (/\ lastCall.made
     /\ topo.NumUnCoreCaches > 0
     /\ lastCall.out.err = NoError
     /\ lastCall.n >= CPUsPerUncoreCache(topo)) =>
        \A u \in FreeDomains(topo, lastCall.avail) :
            CPUsInUncoreCaches(topo, AllCPUs(topo), u) \subseteq lastCall.out.cpus

\* C17 (amended): with uncore caches of k CPUs in use, a successful call for n
\* CPUs with F caches fully available returns a set that holds exactly
\* min(F, n \div k) of them whole; so a free cache is wholly in the result
\* when k <= n and it is the only free one, and at least one is when several
\* are free.
C17_AsManyFreeDomainsAsFit ==
    (/\ lastCall.made
     /\ topo.NumUnCoreCaches > 0
     /\ lastCall.out.err = NoError) =>
        LET k == CPUsPerUncoreCache(topo)
            free == FreeDomains(topo, lastCall.avail)
            taken == free \cap WholeDomainsIn(topo, lastCall.out.cpus)
        IN  Cardinality(taken) = Min({Cardinality(free), lastCall.n \div k})

\* Three caches are free, the request is for two caches' worth: one free
\* cache is left out of the result.
C17_Witness ==
    /\ lastCall.made
    /\ topo = topoDualSocketMultiCache
    /\ lastCall.avail = {2, 3, 4, 5, 6, 7}
    /\ lastCall.n = 4
    /\ lastCall.out.err = NoError
    /\ Cardinality(FreeDomains(topo, lastCall.avail)
                   \cap WholeDomainsIn(topo, lastCall.out.cpus)) = 2

\* The socket an uncore cache or a core belongs to.
SocketOfCache(t, u) ==
    CHOOSE x \in Sockets(t, AllCPUs(t)) : u \in UncoreCachesInSocket(t, AllCPUs(t), x)

SocketOfCore(t, c) ==
    CHOOSE x \in Sockets(t, AllCPUs(t)) : c \in CoresInSockets(t, AllCPUs(t), x)

\* The cores and sockets of t all of whose CPUs are in avail.
FreeCoresIn(t, avail) ==
    {t.CPUDetails[c].CoreID : c \in
        {d \in AllCPUs(t) : CPUsInCores(t, AllCPUs(t), t.CPUDetails[d].CoreID)
                                \subseteq avail}}

FreeSocketsIn(t, avail) ==
    {x \in Sockets(t, AllCPUs(t)) : CPUsInSockets(t, AllCPUs(t), x) \subseteq avail}

\* Socket x comes before socket y in the order of fewest available CPUs
\* first, ties by ascending id.
SocketBefore(t, avail, x, y) ==
    LET nx == Cardinality(CPUsInSockets(t, avail, x))
        ny == Cardinality(CPUsInSockets(t, avail, y))
    IN  nx < ny \/ (nx = ny /\ x < y)

\* The first socket, in that order, among the sockets in S.
FirstSocket(t, avail, S) ==
    CHOOSE x \in S : \A y \in S \ {x} : SocketBefore(t, avail, x, y)

\* The call is for exactly one core on a machine without uncore caches.
OneCoreCall ==
    /\ lastCall.made
    /\ topo.NumUnCoreCaches = 0
    /\ lastCall.out.err = NoError
    /\ lastCall.n = CPUsPerCore(topo)
    /\ lastCall.n < CPUsPerSocket(topo)
    /\ FreeCoresIn(topo, lastCall.avail) # {}

\* The call is for exactly one socket on a machine without uncore caches.
OneSocketCall ==
    /\ lastCall.made
    /\ topo.NumUnCoreCaches = 0
    /\ lastCall.out.err = NoError
    /\ lastCall.n = CPUsPerSocket(topo)
    /\ FreeSocketsIn(topo, lastCall.avail) # {}

\* freeUncoreCaches at the start of the last call.
LastFreeUncoreCaches ==
    freeUncoreCaches(newCPUAccumulator(topo, lastCall.avail, lastCall.n, lastCall.ord))

SingleSocketHTCall(avail, n) ==
    /\ lastCall.made
    /\ topo = topoSingleSocketHT
    /\ lastCall.avail = avail
    /\ lastCall.n = n

\* C19 (as stated): with all 8 CPUs available a request for 4 CPUs returns
\* {0,1,2,3}.
C19_FourCPUsAreFirstThreads ==
    SingleSocketHTCall(0..7, 4) => lastCall.out = Outcome({0, 1, 2, 3}, NoError)

\* C19 (amended): with all 8 CPUs available a request for 4 CPUs returns the
\* two lowest-numbered cores whole, {0,1,4,5}, as a request for 2 CPUs
\* returns core 0 whole, {0,4}.
C19_FourCPUsAreTwoCores ==
    /\ SingleSocketHTCall(0..7, 4) => lastCall.out = Outcome({0, 1, 4, 5}, NoError)
    /\ SingleSocketHTCall(0..7, 2) => lastCall.out = Outcome({0, 4}, NoError)

C19_Witness ==
    /\ SingleSocketHTCall(0..7, 4)
    /\ lastCall.out.cpus = CPUsInCores(topo, AllCPUs(topo), 0)
                               \cup CPUsInCores(topo, AllCPUs(topo), 1)

\* The cores of t with the fewest, but some, CPUs in avail.
FullestCores(t, avail) ==
    LET cores == {t.CPUDetails[c].CoreID : c \in avail}
        free(x) == Cardinality(CPUsInCores(t, avail, x))
    IN  {x \in cores : \A y \in cores : free(x) <= free(y)}

MirrorConsistent(json) ==
    LET v3 == IF json.hasContainerEntries THEN json.containerEntries ELSE EmptyMap
        v2 == IF json.hasEntries THEN json.entries ELSE EmptyMap
    IN  /\ json.hasGlobal
        /\ json.defaultCpuSet = json.globalEntries
        /\ DOMAIN v2 = DOMAIN v3
        /\ Keys2(v2) = Keys2(v3)
        /\ \A k \in Keys2(v3) : v2[k[1]][k[2]] = v3[k[1]][k[2]]

\* The step is a call of storeState that wrote the file: a mutating call, or
\* NewCheckpointState finding no checkpoint.
StoreStateWrote ==
    /\ lastOp'.err = ""
    /\ \/ scState = "ready" /\ lastOp'.op \in MutatingCalls
       \/ scState = "none" /\ lastOp'.op = "NewCheckpointState" /\ disk = NoFile

\* C21: every checkpoint written by storeState carries defaultCpuSet equal to
\* globalEntries.cpuset and entries equal to containerEntries, string by
\* string, for the same (pod, container) keys.
C21_WrittenMirrorConsistent ==
    [][StoreStateWrote => (disk' # NoFile /\ MirrorConsistent(disk'[1]))]_vars

\* A written file with two containers of one pod and a two-token default set.
C21_Witness ==
    /\ lastOp.op \in MutatingCalls
    /\ lastOp.err = ""
    /\ disk # NoFile
    /\ disk[1].hasEntries
    /\ Cardinality(Keys2(disk[1].entries)) = 2
    /\ disk[1].defaultCpuSet = <<<<0, 0>>, <<3, 3>>>>

(***************************************************************************)
(* Claims about the policy plugin stub                                     *)
(***************************************************************************)
\* C22 (as stated): every call of Stop by the one goroutine returns without
\* panicking, returns nil when it finds no server, and the stop channel is
\* closed at most once.
C22_StopAlwaysReturns ==
    /\ stub.closes <= 1
    /\ stub.last.op = "Stop" =>
        /\ stub.last.outcome = "returned"
        /\ (~stub.last.foundServer => stub.last.err = "")

(***************************************************************************)
(* Claims about the order of uncore caches and of sortBySize               *)
(***************************************************************************)
\* sortAvailableUncoreCaches at the start of the last call.
LastSortedUncoreCaches ==
    sortAvailableUncoreCaches(
        newCPUAccumulator(topo, lastCall.avail, lastCall.n, lastCall.ord))

\* The available CPUs of uncore cache u at the start of the last call.
FreeInCache(u) == Cardinality(CPUsInUncoreCaches(topo, lastCall.avail, u))

\* C23 (as stated): within a socket the uncore caches come in ascending order
\* of their number of free CPUs (most-full first), ties by ascending id.
C23_CachesMostFullFirst ==
    (lastCall.made /\ topo.NumUnCoreCaches > 0) =>
        LET L == LastSortedUncoreCaches
        IN  \A i \in 1..Len(L) : \A j \in 1..Len(L) :
                (i < j /\ SocketOfCache(topo, L[i]) = SocketOfCache(topo, L[j])) =>
                    \/ FreeInCache(L[i]) < FreeInCache(L[j])
                    \/ FreeInCache(L[i]) = FreeInCache(L[j]) /\ L[i] < L[j]

\* C24: sortBySize leaves the list a permutation of its input, in ascending
\* order of getCPUCount, ids with equal counts in ascending id order.
C24_SortBySizeOrders ==
    (pure # <<>> /\ pure.fn = "sortBySize" /\ pure.stage = "sorted") =>
        /\ Len(pure.out) = Len(pure.ids)
        /\ SeqRange(pure.out) = SeqRange(pure.ids)
        /\ \A i \in 1..Len(pure.out) : \A j \in 1..Len(pure.out) :
            (i < j) =>
                \/ pure.count[pure.out[i]] < pure.count[pure.out[j]]
                \/ /\ pure.count[pure.out[i]] = pure.count[pure.out[j]]
                   /\ pure.out[i] < pure.out[j]

\* Four ids given in descending order, two pairs of equal counts.
C24_Witness ==
    /\ pure # <<>>
    /\ pure.fn = "sortBySize"
    /\ pure.stage = "sorted"
    /\ pure.ids = <<3, 2, 1, 0>>
    /\ pure.count = (0 :> 1 @@ 1 :> 0 @@ 2 :> 1 @@ 3 :> 0)
    /\ pure.out = <<1, 3, 0, 2>>

(***************************************************************************)
(* Claims about topologies with at most one uncore cache                   *)
(***************************************************************************)
\* The topology the static policy hands to the accumulator when uncore
\* cache alignment is off: the accumulator then skips its uncore phase.
WithoutUncorePhase(t) ==
    LET r == SetupTopologyByPolicyOptions(<<t>>, 1, [AlignByUnCoreCache |-> FALSE])
    IN  r.heap[r.ret]

\* C25: on a topology with at most one uncore cache, a call of the
\* uncore-aware accumulator returns the same CPU set, or the same error, as
\* the same call on the topology with the uncore phase switched off.
C25_OneCacheSameAsLegacy ==
    (lastCall.made /\ topo.NumUnCoreCaches <= 1) =>
        \A ord \in IterOrders :
            lastCall.out = takeByTopologyNUMAPacked(WithoutUncorePhase(topo),
                                                    lastCall.avail, lastCall.n, ord)

\* A call on the one-cache topology in which the uncore phase took the cache.
C25_Witness ==
    /\ lastCall.made
    /\ topo = topoSingleUncoreCacheHT
    /\ lastCall.avail = AllCPUs(topo)
    /\ lastCall.n = 8
    /\ lastCall.out.cpus = AllCPUs(topo)

(***************************************************************************)
(* Claims about whole cores and single threads                             *)
(***************************************************************************)
\* The cores, all of whose threads were available, that the result holds in full.
CoresClaimedWhole(t, avail, cpus) ==
    {id \in FreeCoresIn(t, avail) : CPUsInCores(t, AllCPUs(t), id) \subseteq cpus}

\* The CPUs of the result taken as single threads.
SingleThreads(t, avail, cpus) ==
    {c \in cpus : t.CPUDetails[c].CoreID \notin CoresClaimedWhole(t, avail, cpus)}

\* C26: single threads are taken only after the whole free cores that fit:
\* if a fully available core is left out of a successful result, fewer single
\* threads than a core holds were taken; on the 4-core / 2-thread topology
\* with {0,1,2,3,6} available a request for 2 returns {2,6}.
C26_WholeCoreBeforeThreads ==
    /\ SingleSocketHTCall({0, 1, 2, 3, 6}, 2) => lastCall.out = Outcome({2, 6}, NoError)
    /\ (lastCall.made /\ lastCall.out.err = NoError) =>
        LET cpus == lastCall.out.cpus
            whole == CoresClaimedWhole(topo, lastCall.avail, cpus)
        IN  (FreeCoresIn(topo, lastCall.avail) \ whole # {}) =>
                Cardinality(SingleThreads(topo, lastCall.avail, cpus)) < CPUsPerCore(topo)

\* The call of the example: only core 2 is whole, cores 0, 1, 3 are partial.
C26_Witness ==
    /\ SingleSocketHTCall({0, 1, 2, 3, 6}, 2)
    /\ lastCall.out.cpus = {2, 6}

(***************************************************************************)
(* SpecIter: takeIterator (part_002): starting from all CPUs of a          *)
(* topology, one take per requested count, each result removed from the    *)
(* set before the next take; the first error ends the run.                 *)
(***************************************************************************)
MaxTakes == 3

takeIteratorStart(t) ==
    [fn |-> "takeIterator", topo |-> t, cpuSet |-> AllCPUs(t), allCpus |-> AllCPUs(t),
     results |-> <<>>, returned |-> FALSE, err |-> NoError]

takeIteratorStepKeepsSet(it, takeCpus, ord) ==
    LET out == takeByTopologyNUMAPacked(it.topo, it.cpuSet, takeCpus, ord)
    IN  IF out.err # NoError
        THEN [it EXCEPT !.returned = TRUE, !.err = out.err]
        ELSE [it EXCEPT !.results = Append(@, [count |-> takeCpus, before |-> it.cpuSet,
                                                cpus |-> out.cpus])]

takeIteratorStep(it, takeCpus, ord) ==
    LET out == takeByTopologyNUMAPacked(it.topo, it.cpuSet, takeCpus, ord)
    IN  IF out.err # NoError
        THEN [it EXCEPT !.returned = TRUE, !.err = out.err]
        ELSE [it EXCEPT !.results = Append(@, [count |-> takeCpus, before |-> it.cpuSet,
                                                cpus |-> out.cpus]),
                        !.cpuSet = it.cpuSet \ out.cpus]

IterInit ==
    /\ pure \in {takeIteratorStart(t) : t \in Topologies}
    /\ TakeIdle /\ StoreIdle /\ CkIdle /\ AllocIdle /\ LockIdle /\ PluginIdle /\ PolicyIdle

\* One iteration of the loop over takeNumCpus.
IterTake ==
    /\ ~pure.returned
    /\ Len(pure.results) < MaxTakes
    /\ \E takeCpus \in Requests(pure.topo), ord \in IterOrders :
        pure' = takeIteratorStep(pure, takeCpus, ord)
    /\ UNCHANGED <<takeVars, storeVars, ck, callers, lockVars, pluginVars, policyVars>>

\* The list of counts is used up: the function returns its report.
IterReturn ==
    /\ ~pure.returned
    /\ pure' = [pure EXCEPT !.returned = TRUE]
    /\ UNCHANGED <<takeVars, storeVars, ck, callers, lockVars, pluginVars, policyVars>>

IterNext == IterTake \/ IterReturn

SpecIter == IterInit /\ [][IterNext]_vars

(***************************************************************************)
(* Claims about iterated takes                                             *)
(***************************************************************************)
RECURSIVE SumOfCounts(_)
SumOfCounts(results) ==
    IF results = <<>> THEN 0 ELSE Head(results).count + SumOfCounts(Tail(results))

InIter == pure # <<>> /\ pure.fn = "takeIterator"

\* C27: in a run of takeIterator the results of the successful steps are
\* pairwise disjoint, each lies within the set that was available at its
\* step, and the available set has lost exactly as many CPUs as the steps
\* asked for.
C27_IteratedTakesPartition ==
    InIter =>
        LET R == pure.results
        IN  /\ \A i, j \in 1..Len(R) : i # j => R[i].cpus \cap R[j].cpus = {}
            /\ \A i \in 1..Len(R) : R[i].cpus \subseteq R[i].before
            /\ pure.cpuSet \subseteq pure.allCpus
            /\ Cardinality(pure.allCpus) - Cardinality(pure.cpuSet) = SumOfCounts(R)

\* Three successful steps, each of which took something.
C27_Witness ==
    /\ InIter
    /\ Len(pure.results) = 3
    /\ \A i \in 1..3 : pure.results[i].count > 0

(***************************************************************************)
(* SpecSetup: one call of SetupTopologyByPolicyOptions on a topology       *)
(* object of a heap that may hold other topology objects as well.          *)
(***************************************************************************)
MaxHeap == 2

Heaps == UNION {[1..k -> Topologies] : k \in 1..MaxHeap}

SetupInit ==
    /\ pure \in {[fn |-> "SetupTopologyByPolicyOptions", stage |-> "input",
                  heap |-> h, topology |-> p, opts |-> o, before |-> h, ret |-> 0] :
                    h \in Heaps, p \in 1..MaxHeap, o \in StaticPolicyOptions}
    /\ pure.topology \in DOMAIN pure.heap
    /\ TakeIdle /\ StoreIdle /\ CkIdle /\ AllocIdle /\ LockIdle /\ PluginIdle /\ PolicyIdle

SetupStep ==
    /\ pure.stage = "input"
    /\ LET r == SetupTopologyByPolicyOptions(pure.heap, pure.topology, pure.opts)
       IN  pure' = [pure EXCEPT !.stage = "returned", !.heap = r.heap, !.ret = r.ret]
    /\ UNCHANGED <<takeVars, storeVars, ck, callers, lockVars, pluginVars, policyVars>>

SetupNext == SetupStep

SpecSetup == SetupInit /\ [][SetupNext]_vars

(***************************************************************************)
(* Claims about SetupTopologyByPolicyOptions                               *)
(***************************************************************************)
SetupReturned ==
    pure # <<>> /\ pure.fn = "SetupTopologyByPolicyOptions" /\ pure.stage = "returned"

\* C28: with AlignByUnCoreCache set the call returns the very object it was
\* given, unchanged; otherwise it returns another object whose
\* NumUnCoreCaches is 0 and whose other fields equal the input's, and the
\* input object is as it was.
C28_SetupReturnsInputOrZeroedCopy ==
    SetupReturned =>
        LET in == pure.before[pure.topology]
        IN  /\ \A p \in DOMAIN pure.before : pure.heap[p] = pure.before[p]
            /\ pure.opts.AlignByUnCoreCache =>
                (pure.ret = pure.topology /\ pure.heap = pure.before)
            /\ ~pure.opts.AlignByUnCoreCache =>
                /\ pure.ret \in DOMAIN pure.heap \ DOMAIN pure.before
                /\ pure.heap[pure.ret] = [in EXCEPT !.NumUnCoreCaches = 0]

\* Alignment off on a topology that has uncore caches.
C28_Witness ==
    /\ SetupReturned
    /\ ~pure.opts.AlignByUnCoreCache
    /\ pure.before[pure.topology].NumUnCoreCaches = 2
    /\ pure.heap[pure.ret].NumUnCoreCaches = 0

(***************************************************************************)
(* Claims about MarshalCheckpoint followed by VerifyChecksum               *)
(***************************************************************************)
\* C29: a checkpoint that MarshalCheckpoint has just set the checksum of
\* passes VerifyChecksum of its own type, V2 or V3, whatever the checksum
\* field held before; marshalling it once more yields the same checksum.
C29_MarshalledVerifies ==
    /\ (ck # <<>> /\ ck.stage = "marshalled") =>
        /\ SetChecksumV2(ck.v2).Checksum = ck.v2.Checksum \/ ck.kind # "V2"
        /\ SetChecksumV3(ck.v3).Checksum = ck.v3.Checksum \/ ck.kind # "V3"
    /\ (ck # <<>> /\ ck.stage = "verified" /\ ck.field = "none") => ck.err = ""

\* C30: VerifyChecksum of a V2 checkpoint accepts checksum 0 without
\* hashing; a non-zero checksum is accepted exactly when it is the hash of
\* the content dumped under the type name CPUManagerCheckpoint; either way
\* the checkpoint, checksum field included, is as it was before the call.
C30_V2VerifyZeroOrLegacyHash ==
    (ck # <<>> /\ ck.stage = "verified" /\ ck.kind = "V2") =>
        LET cp == ck.given.v2
        IN  /\ cp.Checksum = ZeroChecksum => (ck.err = "" /\ ~ck.hashed)
            /\ cp.Checksum # ZeroChecksum =>
                /\ ck.hashed
                /\ (ck.err = "") = (cp.Checksum = Hash(DumpV2(cp, "CPUManagerCheckpoint")))
                /\ ck.err \in {"", ErrCorruptCheckpoint}
            /\ ck.v2 = cp

\* A V2 checkpoint verified with a non-zero checksum that is the legacy hash.
C30_Witness ==
    /\ ck # <<>>
    /\ ck.stage = "verified"
    /\ ck.kind = "V2"
    /\ ck.given.v2.Checksum # ZeroChecksum
    /\ ck.err = ""
    /\ ck.v2 = ck.given.v2

(***************************************************************************)
(* Claims about restoring from a checkpoint                                *)
(***************************************************************************)
\* A NewCheckpointState step over a file that loads under the configured
\* policy name.
RestoreOfLoaded ==
    /\ lastOp'.op = "NewCheckpointState"
    /\ lastOp.op # "NewCheckpointState"
    /\ loadState(disk).err = ""
    /\ loadState(disk).cp.PolicyName = scPolicy'

\* C31: when the default cpuset string or the cpuset string of a container of
\* the loaded checkpoint does not parse, the restore fails, the cache is as
\* it was, the file is not rewritten, and the error names the offending
\* string (with container and pod for a container entry).
C31_ParseFailureLeavesAllAsIs ==
    [][ LET cp == loadState(disk).cp
        IN  (RestoreOfLoaded
             /\ (~ParseCPUSet(cp.Global).ok \/ UnparsableEntries(cp) # {}))
            => (/\ scState' = "failed"
                /\ cache' = cache
                /\ cache' = NewMemoryState
                /\ disk' = disk
                /\ IF ~ParseCPUSet(cp.Global).ok
                   THEN lastOp'.err = ErrParseDefault /\ lastOp'.named = <<cp.Global>>
                   ELSE /\ lastOp'.err = ErrParseContainer
                        /\ lastOp'.named \in UnparsableEntries(cp)) ]_vars

\* A restore refused because a container's cpuset string is malformed, while
\* the default set of the same file parses to a non-empty set.
C31_Witness ==
    /\ lastOp.op = "NewCheckpointState"
    /\ lastOp.err = ErrParseContainer
    /\ Len(lastOp.named) = 3
    /\ disk # NoFile
    /\ ParseCPUSet(loadState(disk).cp.Global).ok
    /\ ParseCPUSet(loadState(disk).cp.Global).set # {}
    /\ cache = NewMemoryState

\* The file is in the form storeState writes: it carries the V3 fields.
InV3Form(file) == file # NoFile /\ file[1].hasGlobal

\* The file is in the form a kubelet of the V2 era wrote.
InV2Form(file) == file # NoFile /\ ~file[1].hasGlobal

\* C32: a restore that loads an existing checkpoint, read as V3 or migrated
\* from V2, leaves the file as it found it; a migrated file takes the V3
\* form with the next mutating call whose write succeeds.
C32_RestoreWritesNothing ==
    [][ /\ (/\ lastOp'.op = "NewCheckpointState"
            /\ lastOp.op # "NewCheckpointState"
            /\ disk # NoFile
            /\ lastOp'.err = "")
           => (scState' = "ready" /\ disk' = disk)
        /\ (lastOp'.op \in MutatingCalls /\ lastOp'.err = "")
           => InV3Form(disk') ]_vars

\* A store that came up from a migrated V2 file with assignments, the file
\* still in its V2 form.
C32_Witness ==
    /\ lastOp.op = "NewCheckpointState"
    /\ lastOp.err = ""
    /\ scState = "ready"
    /\ InV2Form(disk)
    /\ cache.assignments # EmptyMap

(***************************************************************************)
(* Claims about the plugin policy and the registration server              *)
(***************************************************************************)
InPlugin == plug # <<>>

\* C33: the policy's endpoint is stopped before any PluginConnected and from
\* every PluginDisconnected to the next PluginConnected, and then carries
\* the name of the last connected plugin ("none" at first); a Merge that
\* reads a stopped endpoint returns admit = false without the MergeHints RPC.
C33_StoppedEndpointDeniesWithoutRPC ==
    InPlugin =>
        /\ isStopped(plug.ep) <=> plug.lastEvent \in {"none", "disconnected"}
        /\ isStopped(plug.ep) => getName(plug.ep) = plug.lastConnected
        /\ (plug.last.op = "Merge" /\ isStopped(plug.last.ep)) =>
            /\ ~plug.last.admit
            /\ ~plug.last.rpc
            /\ plug.last.hints = NilHints

\* A Merge refused by the endpoint left behind when plugin B went away.
C33_Witness ==
    /\ InPlugin
    /\ plug.last.op = "Merge"
    /\ isStopped(plug.last.ep)
    /\ getName(plug.last.ep) = "B"
    /\ ~plug.last.admit

\* C34: while the client of the last PluginConnected has not been
\* disconnected, the policy's endpoint is that plugin's live endpoint,
\* whatever happens to plugins registered earlier.
C34_LiveWhileOwnPluginConnected ==
    (InPlugin /\ plug.lastClient # NoClient
              /\ plug.objs[plug.lastClient].disconnects = 0) =>
        /\ ~isStopped(plug.ep)
        /\ plug.ep.api = plug.lastClient

\* C35: a registration that fails to connect leaves the client registry with
\* exactly the entries it held before the call.
C35_FailedConnectKeepsRegistry ==
    (InPlugin /\ plug.last.op \in {"RegisterPlugin", "Register"}
              /\ plug.last.err = errFailedToDialPolicyPlugin) =>
        plug.clients = plug.last.before.clients

\* The clients a registry holds.
ClientsOf(clients) == {clients[n] : n \in DOMAIN clients}

\* C36: Stop returns; after it the registry is empty and Disconnect was
\* called once on each client registered when it began, and on no other; a
\* Stop that finds no client and no gRPC server changes nothing.
C36_StopDisconnectsAllOnce ==
    (InPlugin /\ plug.last.op = "Stop") =>
        LET b == plug.last.before
        IN  /\ plug.last.outcome = "returned"
            /\ plug.clients = <<>>
            /\ Len(plug.objs) = Len(b.objs)
            /\ \A c \in 1..Len(b.objs) :
                  plug.objs[c].disconnects =
                      b.objs[c].disconnects + (IF c \in ClientsOf(b.clients) THEN 1 ELSE 0)
            /\ (b.clients = <<>> /\ ~b.grpc) => PlugBefore(plug) = b

\* The resources of a response that come in more than one hint.
DuplicatedResources(resp) ==
    {resp.Hints[i].Resource : i \in
        {k \in 1..Len(resp.Hints) :
            \E j \in 1..Len(resp.Hints) :
                j # k /\ resp.Hints[j].Resource = resp.Hints[k].Resource}}

HasUniversalHint(resp) ==
    \E i \in 1..Len(resp.Hints) : resp.Hints[i].Resource = UniversalResource

\* C37: a plugin response without a hint for "*", or with two hints for one
\* other resource, makes Merge return admit = false and no hints; a response
\* with a hint for "*" and no such duplicate passes validateMergedHints.
C37_InvalidResponseRejected ==
    (InPlugin /\ plug.last.op = "Merge" /\ plug.last.rpc /\ plug.last.resp.err = "") =>
        LET resp == plug.last.resp
            invalid == \/ ~HasUniversalHint(resp)
                       \/ DuplicatedResources(resp) \ {UniversalResource} # {}
        IN  /\ invalid =>
                /\ ~plug.last.admit
                /\ plug.last.hints = NilHints
                /\ plug.last.err \in {ErrMissingUniversalHint, ErrDuplicateResource}
            /\ ~invalid =>
                /\ validateMergedHints(resp) = ""
                /\ plug.last.err \in {"", ErrBitMask}
                /\ plug.last.admit = (plug.last.err = "")

\* A response with a universal hint refused for its two hints for "cpu".
C37_Witness ==
    /\ InPlugin
    /\ plug.last.op = "Merge"
    /\ plug.last.rpc
    /\ plug.last.resp.err = ""
    /\ HasUniversalHint(plug.last.resp)
    /\ "cpu" \in DuplicatedResources(plug.last.resp)
    /\ plug.last.err = ErrDuplicateResource
    /\ ~plug.last.admit

(***************************************************************************)
(* SpecPack: the hints of one provider are flattened for the MergeHints    *)
(* request, and the topology packed for one of them is unpacked again.     *)
(***************************************************************************)
MaxNode == 3

\* What BitMask.GetBits returns: the set bits in ascending order.
RECURSIVE GetBits(_)
GetBits(nodes) ==
    IF nodes = {} THEN <<>>
    ELSE LET lo == CHOOSE n \in nodes : \A o \in nodes : n <= o
         IN  <<lo>> \o GetBits(nodes \ {lo})

translateResource(name) == IF name = UniversalResource THEN "" ELSE name

RECURSIVE ConcatAll(_)
ConcatAll(lists) ==
    IF lists = <<>> THEN <<>> ELSE Head(lists) \o ConcatAll(Tail(lists))

\* providersHints: per provider, the (resource, hints) pairs in the order
\* the map iteration yields them.
flattenHints(providersHints) ==
    ConcatAll([p \in 1..Len(providersHints) |->
        ConcatAll([r \in 1..Len(providersHints[p]) |->
            [h \in 1..Len(providersHints[p][r].hints) |->
                [Resource  |-> translateResource(providersHints[p][r].name),
                 Preferred |-> providersHints[p][r].hints[h].Preferred,
                 Topology  |-> packTopology(GetBits(providersHints[p][r].hints[h].NUMANodeAffinity))]]])])

PackInit ==
    /\ pure \in {[fn |-> "packTopology", stage |-> "input",
                  providersHints |->
                      <<<<[name |-> r,
                           hints |-> <<[NUMANodeAffinity |-> a, Preferred |-> b]>>]>>>>,
                  bits |-> GetBits(a), sent |-> <<>>,
                  unpacked |-> [panic |-> FALSE, bits |-> <<>>]] :
                    r \in {"cpu", UniversalResource},
                    a \in SUBSET (0..MaxNode), b \in BOOLEAN}
    /\ TakeIdle /\ StoreIdle /\ CkIdle /\ AllocIdle /\ LockIdle /\ PluginIdle /\ PolicyIdle

PackStep ==
    /\ pure.stage = "input"
    /\ pure' = [pure EXCEPT !.stage = "packed",
                            !.sent = flattenHints(pure.providersHints)]
    /\ UNCHANGED <<takeVars, storeVars, ck, callers, lockVars, pluginVars, policyVars>>

UnpackStep ==
    /\ pure.stage = "packed"
    /\ pure' = [pure EXCEPT !.stage = "unpacked",
                            !.unpacked = unpackTopology(pure.sent[1].Topology)]
    /\ UNCHANGED <<takeVars, storeVars, ck, callers, lockVars, pluginVars, policyVars>>

PackNext == PackStep \/ UnpackStep

SpecPack == PackInit /\ [][PackNext]_vars

(***************************************************************************)
(* Claims about packTopology and unpackTopology                            *)
(***************************************************************************)
InPack == pure # <<>> /\ pure.fn = "packTopology"

\* C38: unpackTopology(packTopology(bits)) returns the list bits, so every
\* hint flattenHints puts in the request carries the NUMA affinity of the
\* provider hint it was made from.
C38_PackUnpackRoundTrip ==
    /\ (InPack /\ pure.stage \in {"packed", "unpacked"}) =>
        /\ Len(pure.sent) = 1
        /\ ~pure.sent[1].Topology.isNil
        /\ [i \in 1..Len(pure.sent[1].Topology.Nodes) |->
                pure.sent[1].Topology.Nodes[i].ID] = pure.bits
    /\ (InPack /\ pure.stage = "unpacked") =>
        /\ ~pure.unpacked.panic
        /\ pure.unpacked.bits = pure.bits

(***************************************************************************)
(* SpecTol: one call of computePodLocalityTolerations on a pod whose init  *)
(* and regular containers declare resource properties.                     *)
(***************************************************************************)
MaxInitContainers == 1
MaxContainers == 2

LocalityTolerations == {"", "t1", "t2"}

\* The Resources.Properties a container may have: none or one property.
ContainerProperties ==
    {<<>>} \cup {<<[Name |-> n, LocalityToleration |-> t]>> :
                    n \in {"cpu", "memory"}, t \in LocalityTolerations}

ContainerLists(prefix, max, min) ==
    UNION {{[i \in 1..k |-> [Name |-> <<prefix, i>>, Properties |-> ps[i]]] :
                ps \in [1..k -> ContainerProperties]} : k \in min..max}

Pods ==
    {[InitContainers |-> ics, Containers |-> cs] :
        ics \in ContainerLists("init", MaxInitContainers, 0),
        cs \in ContainerLists("ctr", MaxContainers, 1)}

NoLocalityTolerationError == [isErr |-> FALSE, ContainerName |-> <<>>, Resource |-> ""]

LocalityTolerationError(containerName, resource) ==
    [isErr |-> TRUE, ContainerName |-> containerName, Resource |-> resource]

\* The inner loop over one container's properties; props is the map built
\* so far.  Returns the map and the error, if one was raised.
RECURSIVE tolerationsOfContainer(_, _, _)
tolerationsOfContainer(props, cnt, cntProps) ==
    IF cntProps = <<>> THEN [props |-> props, err |-> NoLocalityTolerationError]
    ELSE LET cntProp == Head(cntProps)
         IN  IF cntProp.LocalityToleration = ""
             THEN tolerationsOfContainer(props, cnt, Tail(cntProps))
             ELSE IF cntProp.Name \notin DOMAIN props
             \* tol is the zero value of the failed lookup, and it is stored
             THEN tolerationsOfContainer(props @@ (cntProp.Name :> ""), cnt, Tail(cntProps))
             ELSE IF props[cntProp.Name] # cntProp.LocalityToleration
             THEN [props |-> props,
                   err |-> LocalityTolerationError(cnt.Name, cntProp.Name)]
             ELSE tolerationsOfContainer(props, cnt, Tail(cntProps))

RECURSIVE tolerationsOfContainers(_, _)
tolerationsOfContainers(props, cnts) ==
    IF cnts = <<>> THEN [props |-> props, err |-> NoLocalityTolerationError]
    ELSE LET r == tolerationsOfContainer(props, Head(cnts), Head(cnts).Properties)
         IN  IF r.err.isErr THEN r ELSE tolerationsOfContainers(r.props, Tail(cnts))

\* Returns the properties as a set (the slice is filled in map order) and
\* the error.
computePodLocalityTolerations(pod) ==
    LET r == tolerationsOfContainers(<<>>, pod.InitContainers \o pod.Containers)
    IN  IF r.err.isErr THEN [retProps |-> {}, err |-> r.err]
        ELSE [retProps |-> {[Name |-> n, LocalityToleration |-> r.props[n]] :
                                n \in DOMAIN r.props},
              err |-> NoLocalityTolerationError]

TolInit ==
    /\ pure \in {[fn |-> "computePodLocalityTolerations", stage |-> "input", pod |-> p,
                  ret |-> [retProps |-> {}, err |-> NoLocalityTolerationError]] :
                    p \in Pods}
    /\ TakeIdle /\ StoreIdle /\ CkIdle /\ AllocIdle /\ LockIdle /\ PluginIdle /\ PolicyIdle

TolStep ==
    /\ pure.stage = "input"
    /\ pure' = [pure EXCEPT !.stage = "returned",
                            !.ret = computePodLocalityTolerations(pure.pod)]
    /\ UNCHANGED <<takeVars, storeVars, ck, callers, lockVars, pluginVars, policyVars>>

TolNext == TolStep

SpecTol == TolInit /\ [][TolNext]_vars

(***************************************************************************)
(* Claims about computePodLocalityTolerations                              *)
(***************************************************************************)
TolReturned ==
    pure # <<>> /\ pure.fn = "computePodLocalityTolerations" /\ pure.stage = "returned"

\* The non-empty tolerations the containers of a pod declare, by resource.
DeclaredTolerations(pod) ==
    LET cnts == pod.InitContainers \o pod.Containers
    IN  UNION {{cnts[i].Properties[j] :
                    j \in {k \in 1..Len(cnts[i].Properties) :
                                cnts[i].Properties[k].LocalityToleration # ""}} :
                i \in 1..Len(cnts)}

\* C39: computePodLocalityTolerations returns an error exactly when two
\* containers declare different non-empty tolerations for one resource, and
\* otherwise returns, for each resource with a non-empty toleration
\* declared, that toleration.
C39_TolerationsAsDeclared ==
    TolReturned =>
        LET decl == DeclaredTolerations(pure.pod)
            conflict == \E a, b \in decl :
                            a.Name = b.Name /\ a.LocalityToleration # b.LocalityToleration
        IN  /\ pure.ret.err.isErr <=> conflict
            /\ ~conflict => pure.ret.retProps = decl

(***************************************************************************)
(* SpecAdmit: one call of Admit, in the container scope or the pod scope,  *)
(* on a pod; the answers of the policy's Merge and the outcome of          *)
(* allocateAlignedResources for each container are inputs.                 *)
(***************************************************************************)
TopologyAffinityError == "TopologyAffinityError"
ErrAllocate == "allocation failed"
ErrLocalityToleration == "LocalityTolerationError"

\* scope.setTopologyHints: podTopologyHints[podUID][containerName][resource] = hint.
setTopologyHints(store, podUID, containerName, resource, hint) ==
    LET key == <<podUID, containerName, resource>>
    IN  [k \in DOMAIN store \cup {key} |-> IF k = key THEN hint ELSE store[k]]

RECURSIVE setAllTopologyHints(_, _, _, _, _)
setAllTopologyHints(store, podUID, containerName, bestHints, resources) ==
    IF resources = {} THEN store
    ELSE LET r == CHOOSE x \in resources : TRUE
         IN  setAllTopologyHints(
                 setTopologyHints(store, podUID, containerName, r, bestHints[r]),
                 podUID, containerName, bestHints, resources \ {r})

AdmitState(store) == [result |-> "none", err |-> "", hints |-> store, calls |-> <<>>]

\* The loop of containerScope.Admit from container i on; merges[i] is what
\* the policy answers for container i, allocs[i] what allocating for it
\* returns.
RECURSIVE containerScopeLoop(_, _, _, _, _)
containerScopeLoop(st, pod, i, merges, allocs) ==
    LET cnts == pod.InitContainers \o pod.Containers
    IN  IF i > Len(cnts) THEN [st EXCEPT !.result = "admit"]
        ELSE LET container == cnts[i]
                 asked == [st EXCEPT !.calls = @ \o <<<<"Merge", container.Name>>>>]
             IN  IF ~merges[i].admit
                 THEN [asked EXCEPT !.result = "reject", !.err = TopologyAffinityError]
                 ELSE LET tried ==
                              [asked EXCEPT
                                  !.hints = setAllTopologyHints(@, pod.UID, container.Name,
                                                merges[i].bestHints, DOMAIN merges[i].bestHints),
                                  !.calls = @ \o <<<<"allocateAlignedResources", container.Name>>>>]
                      IN  IF allocs[i] # ""
                          THEN [tried EXCEPT !.result = "reject", !.err = allocs[i]]
                          ELSE containerScopeLoop(tried, pod, i + 1, merges, allocs)

\* Mutant: a rejection takes back the hints stored during the call.
containerScopeAdmitRollsBack(store, pod, merges, allocs) ==
    LET r == containerScopeLoop(AdmitState(store), pod, 1, merges, allocs)
    IN  IF r.result = "reject" THEN [r EXCEPT !.hints = store] ELSE r

containerScopeAdmit(store, pod, merges, allocs) ==
    containerScopeLoop(AdmitState(store), pod, 1, merges, allocs)

\* The container name "" that the pod scope passes to Merge.
NoContainerName == <<"", 0>>

\* podScope.calculateAffinity: the tolerations, then one Merge for the pod.
podScopeCalculateAffinity(pod, merges) ==
    IF computePodLocalityTolerations(pod).err.isErr
    THEN [bestHints |-> <<>>, err |-> ErrLocalityToleration, calls |-> <<>>]
    ELSE [bestHints |-> merges[1].bestHints,
          err |-> IF ~merges[1].admit THEN TopologyAffinityError ELSE "",
          calls |-> <<<<"Merge", NoContainerName>>>>]

RECURSIVE podScopeLoop(_, _, _, _, _)
podScopeLoop(st, pod, i, bestHints, allocs) ==
    LET cnts == pod.InitContainers \o pod.Containers
    IN  IF i > Len(cnts) THEN [st EXCEPT !.result = "admit"]
        ELSE LET container == cnts[i]
                 tried ==
                     [st EXCEPT
                         !.hints = setAllTopologyHints(@, pod.UID, container.Name,
                                                       bestHints, DOMAIN bestHints),
                         !.calls = @ \o <<<<"allocateAlignedResources", container.Name>>>>]
             IN  IF allocs[i] # ""
                 THEN [tried EXCEPT !.result = "reject", !.err = allocs[i]]
                 ELSE podScopeLoop(tried, pod, i + 1, bestHints, allocs)

podScopeAdmit(store, pod, merges, allocs) ==
    LET aff == podScopeCalculateAffinity(pod, merges)
        st == [AdmitState(store) EXCEPT !.calls = aff.calls]
    IN  IF aff.err # ""
        THEN [st EXCEPT !.result = "reject", !.err = aff.err]
        ELSE podScopeLoop(st, pod, 1, aff.bestHints, allocs)

\* ---- inputs
MergeOutcomes ==
    {[bestHints |-> <<>>, admit |-> FALSE],
     [bestHints |-> ("cpu" :> "numa0"), admit |-> TRUE],
     [bestHints |-> ("cpu" :> "numa1"), admit |-> TRUE],
     [bestHints |-> ("cpu" :> "numa0" @@ "memory" :> "numa0"), admit |-> TRUE]}

AdmitProperties == {<<>>, <<[Name |-> "cpu", LocalityToleration |-> "t1"]>>}

AdmitContainerLists(prefix, max, min, properties) ==
    UNION {{[i \in 1..k |-> [Name |-> <<prefix, i>>, Properties |-> ps[i]]] :
                ps \in [1..k -> properties]} : k \in min..max}

AdmitPods(properties) ==
    {[UID |-> "pod1", InitContainers |-> ics, Containers |-> cs] :
        ics \in AdmitContainerLists("init", MaxInitContainers, 0, properties),
        cs \in AdmitContainerLists("ctr", MaxContainers, 1, properties)}

\* Hints of a pod admitted earlier.
EarlierHints == (<<"pod0", <<"ctr", 1>>, "cpu">> :> "numa1")

NoAdmitResult == AdmitState(<<>>)

AdmitInputs(scopeName, pods, perPod) ==
    UNION {{[fn |-> "Admit", stage |-> "input", scopeName |-> scopeName, pod |-> p,
             merges |-> ms, allocs |-> as, before |-> EarlierHints,
             ret |-> NoAdmitResult] :
                ms \in [1..(IF perPod THEN 1 ELSE Len(p.InitContainers) + Len(p.Containers))
                            -> MergeOutcomes],
                as \in [1..(Len(p.InitContainers) + Len(p.Containers))
                            -> {"", ErrAllocate}]} :
           p \in pods}

AdmitInit ==
    /\ pure \in AdmitInputs("container", AdmitPods({<<>>}), FALSE)
                \cup AdmitInputs("pod", AdmitPods(AdmitProperties), TRUE)
    /\ TakeIdle /\ StoreIdle /\ CkIdle /\ AllocIdle /\ LockIdle /\ PluginIdle /\ PolicyIdle

ContainerAdmitStep ==
    /\ pure.stage = "input"
    /\ pure.scopeName = "container"
    /\ pure' = [pure EXCEPT !.stage = "returned",
                   !.ret = containerScopeAdmit(pure.before, pure.pod, pure.merges, pure.allocs)]
    /\ UNCHANGED <<takeVars, storeVars, ck, callers, lockVars, pluginVars, policyVars>>

PodAdmitStep ==
    /\ pure.stage = "input"
    /\ pure.scopeName = "pod"
    /\ pure' = [pure EXCEPT !.stage = "returned",
                   !.ret = podScopeAdmit(pure.before, pure.pod, pure.merges, pure.allocs)]
    /\ UNCHANGED <<takeVars, storeVars, ck, callers, lockVars, pluginVars, policyVars>>

AdmitNext == ContainerAdmitStep \/ PodAdmitStep

SpecAdmit == AdmitInit /\ [][AdmitNext]_vars

(***************************************************************************)
(* Claims about Admit                                                      *)
(***************************************************************************)
AdmitReturned == pure # <<>> /\ pure.fn = "Admit" /\ pure.stage = "returned"

AdmitContainers == pure.pod.InitContainers \o pure.pod.Containers

\* The containers named by the calls of one kind, in the order of the calls.
ContainersCalled(kind) ==
    LET OfKind(c) == c[1] = kind
        cs == SelectSeq(pure.ret.calls, OfKind)
    IN  [i \in 1..Len(cs) |-> cs[i][2]]

\* What the policy answered for container i.
AnswerFor(i) == IF pure.scopeName = "pod" THEN pure.merges[1] ELSE pure.merges[i]

\* The pod scope fails before any container when the tolerations clash or
\* the policy denies the pod.
DeniedAsPod ==
    /\ pure.scopeName = "pod"
    /\ \/ computePodLocalityTolerations(pure.pod).err.isErr
       \/ ~pure.merges[1].admit

\* The containers at which the call fails: the policy denies the container
\* (container scope) or the allocation for it returns an error.
FailingContainers ==
    {i \in 1..Len(AdmitContainers) :
        \/ pure.scopeName = "container" /\ ~pure.merges[i].admit
        \/ pure.allocs[i] # ""}

\* The number of containers the call gets to: none, those up to the first
\* failing one, or all.
LastHandled ==
    IF DeniedAsPod THEN 0
    ELSE IF FailingContainers = {} THEN Len(AdmitContainers)
    ELSE CHOOSE i \in FailingContainers : \A j \in FailingContainers : i <= j

\* C40: Admit handles the containers in order, init containers first; it
\* admits only if the policy admitted and the allocation succeeded for every
\* container; at the first denial or allocation error it rejects, handles no
\* later container, and the hints stored for the earlier containers, as all
\* hints stored before the call, stay in place.
C40_AdmitStopsAtFirstFailure ==
    AdmitReturned =>
        LET names == [i \in 1..Len(AdmitContainers) |-> AdmitContainers[i].Name]
            merged == ContainersCalled("Merge")
            allocated == ContainersCalled("allocateAlignedResources")
            failed == DeniedAsPod \/ FailingContainers # {}
        IN  /\ pure.ret.result \in {"admit", "reject"}
            /\ Len(allocated) <= Len(names)
            /\ allocated = SubSeq(names, 1, Len(allocated))
            /\ pure.scopeName = "container" =>
                  /\ Len(merged) <= Len(names)
                  /\ merged = SubSeq(names, 1, Len(merged))
            /\ pure.ret.result = "admit" =>
                  /\ allocated = names
                  /\ \A i \in 1..Len(names) : AnswerFor(i).admit /\ pure.allocs[i] = ""
            /\ pure.ret.result = "reject" <=> failed
            /\ failed =>
                  /\ pure.ret.err # ""
                  /\ \A i \in 1..Len(names) :
                        i > LastHandled =>
                            /\ \A c \in 1..Len(pure.ret.calls) : pure.ret.calls[c][2] # names[i]
                            /\ \A k \in DOMAIN pure.ret.hints :
                                  k[1] = pure.pod.UID => k[2] # names[i]
                  /\ \A i \in 1..Len(names) :
                        i < LastHandled =>
                            \A r \in DOMAIN AnswerFor(i).bestHints :
                                /\ <<pure.pod.UID, names[i], r>> \in DOMAIN pure.ret.hints
                                /\ pure.ret.hints[<<pure.pod.UID, names[i], r>>] =
                                       AnswerFor(i).bestHints[r]
            /\ \A k \in DOMAIN pure.before :
                  k \in DOMAIN pure.ret.hints /\ pure.ret.hints[k] = pure.before[k]

\* The allocation for the second of three containers fails: the call
\* rejects, the init container and the second one have their hints, and the
\* third was not looked at.
C40_Witness ==
    /\ AdmitReturned
    /\ pure.scopeName = "container"
    /\ Len(pure.pod.InitContainers) = 1
    /\ Len(pure.pod.Containers) = 2
    /\ LastHandled = 2
    /\ pure.allocs[2] = ErrAllocate
    /\ pure.ret.result = "reject"
    /\ pure.ret.err = ErrAllocate
    /\ <<pure.pod.UID, <<"init", 1>>, "cpu">> \in DOMAIN pure.ret.hints
    /\ ContainersCalled("allocateAlignedResources") = <<<<"init", 1>>, <<"ctr", 1>>>>

====
